---- MODULE Spec2Model ----
(***************************************************************************)
(* Purchase-order (LPO) lifecycle and goods-receipt reconciliation of      *)
(* sacsol-core (procurement app).                                          *)
(*                                                                         *)
(* Decimal fields with decimal_places=2 are integers counted in            *)
(* hundredths: qty 300 is 3.00, unit_price 25 is 0.25, subtotal 75 is 0.75.*)
(* Every HTTP request runs on its own worker; statements outside           *)
(* transaction.atomic() commit one by one (Django autocommit), so a        *)
(* handler is a sequence of steps that other requests may interleave with. *)
(***************************************************************************)
EXTENDS Integers, Sequences, FiniteSets, TLC

\* ---------------------------------------------------------------- bounds
MaxOrders == 1
MaxItemId == 3
MaxReq == 2
MaxGrnItems == 2
\* values the yearly sequence may reach
MaxSeq == 5
\* goods receipts ever created where receipts can be deleted
MaxGrns == 3
\* supplier rows
MaxSup == 2

ItemIds == 1..MaxItemId
Req == 1..MaxReq

\* ---------------------------------------------------------------- users
Users == {"staff", "manager", "owner"}

\* the users the model lets send each kind of request: one who may and one who may not
Creators == {"staff"}
Submitters == {"staff"}
Approvers == {"manager", "staff"}
Cancellers == {"owner", "manager"}
Updaters == {"staff", "manager"}
Receivers == {"staff"}

is_owner(u) == u = "owner"

in_groups_Manager(u) == u = "manager"

is_manager_or_owner(u) == is_owner(u) \/ in_groups_Manager(u)

\* ---------------------------------------------------------------- statuses
STATUS_DRAFT == "draft"
STATUS_SUBMITTED == "submitted"
STATUS_APPROVED == "approved"
STATUS_PARTIAL == "partially_received"
STATUS_FULFILLED == "fulfilled"
STATUS_CANCELLED == "cancelled"
NoStatus == "none"

\* ---------------------------------------------------------------- inputs
Inv == {1}
NoInv == 0

\* item lists a client posts: [qty, unit_price, inventory_item]
OneLine == << [qty |-> 300, unit_price |-> 100, inv |-> 1] >>
TwoLines == << [qty |-> 200, unit_price |-> 100, inv |-> 1],
               [qty |-> 100, unit_price |-> 25,  inv |-> NoInv] >>
Fraction == << [qty |-> 3, unit_price |-> 25, inv |-> NoInv] >>

Absent == [mode |-> "absent", v |-> 0]
Amount(n) == [mode |-> "amount", v |-> n]
Rate(n) == [mode |-> "rate", v |-> n]

\* POST payloads: a one-line order, a two-line order with a tax rate and a
\* discount, and an order whose discount exceeds its subtotal
CreatePayloads ==
  { [ items |-> OneLine, tax |-> Absent, disc |-> Absent, supplier_name |-> "acme" ],
    [ items |-> TwoLines, tax |-> Rate(10), disc |-> Amount(100), supplier_name |-> "acme" ],
    [ items |-> Fraction, tax |-> Absent, disc |-> Amount(100), supplier_name |-> "acme" ] }

\* quantities a receipt item may ask for
RecvQtys == {100, 200}

\* PUT/PATCH payloads: tax only, discount only, items only, a rate without
\* items, items with a rate
UpdatePayloads ==
  { [ tax |-> Amount(30), disc |-> Absent, hasItems |-> FALSE, items |-> << >> ],
    [ tax |-> Absent, disc |-> Amount(100), hasItems |-> FALSE, items |-> << >> ],
    [ tax |-> Absent, disc |-> Absent, hasItems |-> TRUE, items |-> Fraction ],
    [ tax |-> Rate(10), disc |-> Absent, hasItems |-> FALSE, items |-> << >> ],
    [ tax |-> Rate(10), disc |-> Absent, hasItems |-> TRUE, items |-> OneLine ] }

\* ---------------------------------------------------------------- decimals
\* quantize n/d to an integer, ROUND_HALF_EVEN
RoundHalfEven(n, d) ==
  LET q == n \div d
      r == n % d
  IN IF 2 * r > d \/ (2 * r = d /\ q % 2 = 1) THEN q + 1 ELSE q

\* LPOItem.save: line_total = qty * unit_price, stored with decimal_places=2
LineTotal(qty, unit_price) == RoundHalfEven(qty * unit_price, 100)

RECURSIVE SumSeq(_, _)
SumSeq(f(_), s) == IF s = << >> THEN 0 ELSE f(Head(s)) + SumSeq(f, Tail(s))

RECURSIVE SumSet(_, _)
SumSet(f(_), S) ==
  IF S = {} THEN 0
  ELSE LET x == CHOOSE y \in S : TRUE IN f(x) + SumSet(f, S \ {x})

\* ---------------------------------------------------------------- state
VARIABLES
  lpos,       \* LPO rows
  lpoItems,   \* LPOItem rows
  nextItem,   \* next LPOItem primary key
  grns,       \* committed GoodsReceipt rows with their GoodsReceiptItems
  stock,      \* InventoryEntry.quantity
  seqCounter, \* LPOSequence.counter of the current year
  itemLock,   \* row locks on LPOItem rows (select_for_update)
  invLock,    \* row locks on InventoryEntry rows (UPDATE inside a transaction)
  reqs,       \* the requests the workers are serving
  resp,       \* the HTTP response the last step sent, if it sent one
  audit,      \* AuditLog rows
  suppliers,  \* Supplier rows, in the order of their insertion
  seqLock,    \* row lock on the LPOSequence row of the year
  outbox      \* the mails handed to the mail server, with the PDF each carries

vars == << lpos, lpoItems, nextItem, grns, stock, seqCounter,
           itemLock, invLock, reqs, resp, audit, suppliers, seqLock, outbox >>

Orders == DOMAIN lpos

NoLPO ==
  [ status |-> NoStatus, subtotal |-> 0, tax_amount |-> 0, discount_amount |-> 0,
    grand_total |-> 0, created_by |-> "", submitted_by |-> "", submitted_at |-> FALSE,
    approved_by |-> "", approved_at |-> FALSE, deleted |-> FALSE, lpo_number |-> 0,
    supplier |-> 0 ]

NoItem == [ lpo |-> 0, qty |-> 0, unit_price |-> 0, line_total |-> 0, inv |-> NoInv, alive |-> FALSE ]

\* the one LPOSequence row: timezone.now().year is the same for every request
Year == 1

NoPayload ==
  [ items |-> << >>, tax |-> Absent, disc |-> Absent, supplier_name |-> "",
    phone |-> "", email |-> "", rc_number |-> "" ]

\* the Supplier row with code n made from the supplier fields of payload p
SupplierRow(n, p) ==
  [ supplier_code |-> n, name |-> p.supplier_name, phone |-> p.phone, email |-> p.email,
    rc_number |-> p.rc_number ]

NoSupplier == SupplierRow(0, NoPayload)

\* the supplier the first order of the year created by name: it took the
\* sequence value after the number of the order
AcmeRow == SupplierRow(2, [ NoPayload EXCEPT !.supplier_name = "acme" ])

Idle ==
  [ op |-> "idle", pc |-> "idle", user |-> "", lpo |-> 0, inst |-> NoLPO, pitems |-> {},
    fresh |-> FALSE, items |-> << >>, hasItems |-> FALSE,
    gitems |-> << >>, idx |-> 0, txItems |-> << >>, n |-> 0, payload |-> NoPayload,
    sup |-> NoSupplier, fields |-> {} ]

\* idx: the receipt item the request was at
NoResp == [ op |-> "", user |-> "", lpo |-> 0, idx |-> 0, result |-> "", why |-> "" ]

Exists(o) == lpos[o].status # NoStatus

\* the LPOItem rows of an order
ItemsOf(o) == { i \in ItemIds : lpoItems[i].alive /\ lpoItems[i].lpo = o }

\* the audit log with one more row: AuditLog.objects.create(actor, verb, lpo, grn);
\* grn is the position of the goods receipt in grns, 0 for none. The handlers
\* write their audit row right after the save it describes and nothing reads
\* the rows back, so the write is part of the step of that save.
Logged(log, actor, verb, o, g) ==
  log \cup { [ actor |-> actor, verb |-> verb, lpo |-> o, grn |-> g ] }

\* ---------------------------------------------------------------- model helpers
\* quantity of line item i in a sequence of receipt items
QtyIn(s, i) ==
  LET f(it) == IF it.lpo_item = i THEN it.qty_received ELSE 0 IN SumSeq(f, s)

\* committed receipt quantity of line item i
Committed(i) ==
  LET f(g) == QtyIn(g.items, i) IN SumSeq(f, grns)

\* a sum that leaves out the rows of the open transaction
total_received_CommittedOnly(r, i) == Committed(i)

\* LPOItem.total_received as seen by request r: committed rows plus the rows
\* its own open transaction has inserted
total_received(r, i) == Committed(i) + QtyIn(reqs[r].txItems, i)

\* LPO.recompute_totals over the item set S, on instance inst
recompute_totals(inst, S) ==
  LET lt(i) == lpoItems[i].line_total
      subtotal == SumSet(lt, S)
  IN [ inst EXCEPT !.subtotal = subtotal,
                   !.grand_total = subtotal + inst.tax_amount - inst.discount_amount ]

\* LPOSerializer.validate: tax_amount from the payload; with a tax_rate it is
\* the rate applied to the subtotal of the items of the payload
ValidatedTax(tax, items) ==
  LET ex(it) == it.qty * it.unit_price
      subtotal == SumSeq(ex, items)
  IN IF tax.mode = "rate" THEN Amount(RoundHalfEven(subtotal * tax.v, 10000))
     ELSE tax

Init ==
  /\ lpos = [ o \in 1..MaxOrders |-> NoLPO ]
  /\ lpoItems = [ i \in ItemIds |-> NoItem ]
  /\ nextItem = 1
  /\ grns = << >>
  /\ stock = [ v \in Inv |-> 0 ]
  /\ seqCounter = 0
  /\ itemLock = [ i \in ItemIds |-> 0 ]
  /\ invLock = [ v \in Inv |-> 0 ]
  /\ reqs = [ r \in Req |-> Idle ]
  /\ resp = NoResp
  /\ audit = {}
  /\ suppliers = << >>
  /\ seqLock = [ y \in {Year} |-> 0 ]
  /\ outbox = {}

\* rows inserted for the items of a payload, primary keys from k on
NewItems(o, items, k) ==
  [ i \in ItemIds |->
      IF i >= k /\ i < k + Len(items)
      THEN LET it == items[i - k + 1]
           IN [ lpo |-> o, qty |-> it.qty, unit_price |-> it.unit_price,
                line_total |-> LineTotal(it.qty, it.unit_price), inv |-> it.inv, alive |-> TRUE ]
      ELSE lpoItems[i] ]

\* name__iexact, email__iexact and str.lower(): comparison without case
Lower(name) == IF name = "ACME" THEN "acme" ELSE IF name = "A@X" THEN "a@x" ELSE name

\* Supplier.objects.filter(name__iexact=name).first(): the position of the first
\* supplier of that name, 0 for none
FindSupplier(rows, name) ==
  LET S == { k \in 1..Len(rows) : Lower(rows[k].name) = Lower(name) }
  IN IF S = {} THEN 0 ELSE CHOOSE k \in S : \A j \in S : k <= j

\* _ensure_supplier: the supplier rows after the supplier of an order is
\* resolved by name; a new supplier takes the next value of the counter, which
\* stands at n
EnsureSupplier(rows, name, n) ==
  IF FindSupplier(rows, name) # 0 THEN rows
  ELSE Append(rows, SupplierRow(n + 1, [ NoPayload EXCEPT !.supplier_name = name ]))

\* the body of perform_create for user u, payload p and primary key o, the
\* counter of the year read as n - 1 under the lock: the order takes number n,
\* a new supplier the next one; header, line items, totals and the audit row
Create(u, o, p, n) ==
  /\ LET items == p.items
         vt == ValidatedTax(p.tax, items)
         row == [ NoLPO EXCEPT !.status = STATUS_DRAFT,
                               !.tax_amount = vt.v,
                               !.discount_amount = p.disc.v,
                               !.created_by = u,
                               !.lpo_number = n,
                               !.supplier = FindSupplier(EnsureSupplier(suppliers, p.supplier_name, n),
                                                         p.supplier_name) ]
         rows == NewItems(o, items, nextItem)
         S == { i \in ItemIds : i >= nextItem /\ i < nextItem + Len(items) }
         lt(i) == rows[i].line_total
         subtotal == SumSet(lt, S)
     IN /\ lpoItems' = rows
        /\ lpos' = [ lpos EXCEPT ![o] =
                       [ row EXCEPT !.subtotal = subtotal,
                                    !.grand_total = subtotal + row.tax_amount - row.discount_amount ] ]
  /\ nextItem' = nextItem + Len(p.items)
  /\ suppliers' = EnsureSupplier(suppliers, p.supplier_name, n)
  /\ seqCounter' = n + Len(suppliers') - Len(suppliers)
  /\ audit' = Logged(audit, u, "create", o, 0)

\* POST /lpos/ : LPOViewSet.perform_create, one transaction, run by itself
CreateLPO(u, o, p) ==
  /\ ~Exists(o)
  /\ \A b \in Orders : b < o => Exists(b)
  /\ nextItem + Len(p.items) - 1 <= MaxItemId
  /\ seqLock[Year] = 0
  /\ Create(u, o, p, seqCounter + 1)
  /\ resp' = [ NoResp EXCEPT !.op = "create", !.user = u, !.lpo = o, !.result = "ok" ]
  /\ UNCHANGED << grns, stock, itemLock, invLock, reqs, seqLock, outbox >>

\* ---------------------------------------------------------------- requests
\* a worker that can take a new request
Free(r) == reqs[r].pc = "idle"

\* new requests go to the first free worker
FirstFree(r) == Free(r) /\ \A s \in Req : s < r => ~Free(s)

\* a request that has just arrived
Arrived(op, u, o) == [ Idle EXCEPT !.op = op, !.user = u, !.lpo = o ]

\* the response to request q
Response(q, res, why) ==
  [ op |-> q.op, user |-> q.user, lpo |-> q.lpo, idx |-> q.idx, result |-> res, why |-> why ]

\* request q of worker r is answered and the worker is free again
Finish(r, q, res, why) ==
  /\ reqs' = [ reqs EXCEPT ![r] = Idle ]
  /\ resp' = Response(q, res, why)

\* worker r goes on with request q
Continue(r, q) ==
  /\ reqs' = [ reqs EXCEPT ![r] = q ]
  /\ resp' = NoResp

\* LPOViewSet.get_queryset: soft-deleted orders are hidden, staff see their own
Visible(u, o) ==
  /\ Exists(o)
  /\ ~lpos[o].deleted
  /\ (is_manager_or_owner(u) \/ lpos[o].created_by = u)

\* a write policy that lets every user through
LPOWritePolicy_Open(u, row) == TRUE

\* LPOWritePolicy.has_object_permission for a non-safe method
LPOWritePolicy(u, row) ==
  \/ is_owner(u)
  \/ in_groups_Manager(u)
  \/ (row.created_by = u /\ row.status = STATUS_DRAFT)

\* LPO.is_editable
is_editable(row) == row.status \in {STATUS_DRAFT, STATUS_SUBMITTED}

\* LPO.submit without the check for items
SubmitGuard_NoItemCheck(row, S) ==
  IF row.status # STATUS_DRAFT THEN "status"
  ELSE IF row.grand_total <= 0 THEN "empty"
  ELSE "ok"

\* guard of LPO.submit on the instance and its prefetched items
SubmitGuard(row, S) ==
  IF row.status # STATUS_DRAFT THEN "status"
  ELSE IF Cardinality(S) = 0 \/ row.grand_total <= 0 THEN "empty"
  ELSE "ok"

\* LPO.approve without the status check
ApproveGuard_NoStatus(row, S) ==
  IF Cardinality(S) = 0 \/ row.grand_total <= 0 THEN "empty" ELSE "ok"

\* guard of LPO.approve
ApproveGuard(row, S) ==
  IF row.status # STATUS_SUBMITTED THEN "status"
  ELSE IF Cardinality(S) = 0 \/ row.grand_total <= 0 THEN "empty"
  ELSE "ok"

\* LPO.cancel refusing only cancelled orders
CancelGuard_OnlyCancelled(row) ==
  IF row.status = STATUS_CANCELLED THEN "status" ELSE "ok"

\* guard of LPO.cancel
CancelGuard(row) ==
  IF row.status \in {STATUS_FULFILLED, STATUS_CANCELLED} THEN "status" ELSE "ok"

\* the checks of LPOViewSet.submit before the save
SubmitCheck(u, o) ==
  IF ~Visible(u, o) THEN "404"
  ELSE IF ~LPOWritePolicy(u, lpos[o]) THEN "403"
  ELSE SubmitGuard(lpos[o], ItemsOf(o))

\* submit with the audit row written before the checks
SubmitRead_AuditFirst(r, u, o) ==
  /\ FirstFree(r)
  /\ Exists(o)
  /\ LET q == Arrived("submit", u, o)
         c == SubmitCheck(u, o)
     IN IF c # "ok" THEN Finish(r, q, "fail", c)
        ELSE Continue(r, [ q EXCEPT !.pc = "save",
                                    !.inst = [ lpos[o] EXCEPT !.status = STATUS_SUBMITTED,
                                                              !.submitted_by = u,
                                                              !.submitted_at = TRUE ] ])
  /\ audit' = Logged(audit, u, "submitted", o, 0)
  /\ UNCHANGED << lpos, lpoItems, nextItem, grns, stock, seqCounter, itemLock, invLock >>
  /\ UNCHANGED << suppliers, seqLock, outbox >>

\* POST /lpos/{id}/submit/ up to the save: get_object, write policy, LPO.submit
SubmitRead(r, u, o) ==
  /\ FirstFree(r)
  /\ Exists(o)
  /\ LET q == Arrived("submit", u, o)
         c == SubmitCheck(u, o)
     IN IF c # "ok" THEN Finish(r, q, "fail", c)
        ELSE Continue(r, [ q EXCEPT !.pc = "save",
                                    !.inst = [ lpos[o] EXCEPT !.status = STATUS_SUBMITTED,
                                                              !.submitted_by = u,
                                                              !.submitted_at = TRUE ] ])
  /\ UNCHANGED << lpos, lpoItems, nextItem, grns, stock, seqCounter, itemLock, invLock >>
  /\ UNCHANGED << audit, suppliers, seqLock, outbox >>

\* lpo.save(update_fields=["status", "submitted_by", "submitted_at"])
SubmitSave(r) ==
  /\ reqs[r].op = "submit" /\ reqs[r].pc = "save"
  /\ LET q == reqs[r]
     IN /\ lpos' = [ lpos EXCEPT ![q.lpo].status = q.inst.status,
                                 ![q.lpo].submitted_by = q.inst.submitted_by,
                                 ![q.lpo].submitted_at = q.inst.submitted_at ]
        /\ Finish(r, q, "ok", "")
  /\ UNCHANGED << lpoItems, nextItem, grns, stock, seqCounter, itemLock, invLock >>
  /\ audit' = Logged(audit, reqs[r].user, "submitted", reqs[r].lpo, 0)
  /\ UNCHANGED << suppliers, seqLock, outbox >>

\* the checks of LPOViewSet.approve before the save
ApproveCheck(u, o) ==
  IF ~is_manager_or_owner(u) THEN "403"
  ELSE IF ~Visible(u, o) THEN "404"
  ELSE ApproveGuard(lpos[o], ItemsOf(o))

\* POST /lpos/{id}/approve/ up to the save: manager or owner only, LPO.approve
ApproveRead(r, u, o) ==
  /\ FirstFree(r)
  /\ Exists(o)
  /\ LET q == Arrived("approve", u, o)
         c == ApproveCheck(u, o)
     IN IF c # "ok" THEN Finish(r, q, "fail", c)
        ELSE Continue(r, [ q EXCEPT !.pc = "save",
                                    !.inst = [ lpos[o] EXCEPT !.status = STATUS_APPROVED,
                                                              !.approved_by = u,
                                                              !.approved_at = TRUE ] ])
  /\ UNCHANGED << lpos, lpoItems, nextItem, grns, stock, seqCounter, itemLock, invLock >>
  /\ UNCHANGED << audit, suppliers, seqLock, outbox >>

\* a renderer without the except clause: its failure escapes
render_lpo_pdf_bytes_Raises(ok) == IF ok THEN "pdf" ELSE "raise"

\* render_lpo_pdf_bytes: the PDF of the order; a failure of the renderer is
\* caught and answered with a stub document (ok is whether weasyprint worked)
render_lpo_pdf_bytes(ok) == IF ok THEN "pdf" ELSE "stub"

\* send_lpo_pdf_to_supplier: nothing is sent without an address, and
\* email.send(fail_silently=True) swallows a failure of the mail server
\* (delivered is whether the server took the mail); n counts the mails of the order
send_lpo_pdf_to_supplier(box, o, to, pdf, delivered) ==
  IF to = "" \/ ~delivered THEN box
  ELSE box \cup { [ lpo |-> o, to |-> to, pdf |-> pdf,
                    n |-> 1 + Cardinality({ m \in box : m.lpo = o }) ] }

\* AuditLog.objects.filter(verb="emailed", lpo=instance).exists()
Emailed(log, o) == \E a \in log : a.verb = "emailed" /\ a.lpo = o

\* lpo.save(update_fields=["status", "approved_at", "approved_by"]) with the
\* post_save handler on_lpo_approved_email_supplier, which runs inside the
\* save: once per order it renders the PDF, mails it and writes the "emailed"
\* audit row; then the view writes the "approved" audit row. An exception out
\* of the save is caught by the view and answered with 400, after the row was
\* written.
ApproveSave(r) ==
  /\ reqs[r].op = "approve" /\ reqs[r].pc = "save"
  /\ \E rendered \in BOOLEAN, delivered \in BOOLEAN :
       LET q == reqs[r]
           o == q.lpo
           fires == q.inst.status = STATUS_APPROVED /\ ~Emailed(audit, o)
           pdf == render_lpo_pdf_bytes(rendered)
           to == IF lpos[o].supplier = 0 THEN "" ELSE suppliers[lpos[o].supplier].email
           mailed == IF fires THEN Logged(audit, "", "emailed", o, 0) ELSE audit
       IN /\ lpos' = [ lpos EXCEPT ![o].status = q.inst.status,
                                   ![o].approved_by = q.inst.approved_by,
                                   ![o].approved_at = q.inst.approved_at ]
          /\ IF fires /\ pdf = "raise"
             THEN /\ audit' = audit
                  /\ outbox' = outbox
                  /\ Finish(r, q, "fail", "error")
             ELSE /\ outbox' = IF fires THEN send_lpo_pdf_to_supplier(outbox, o, to, pdf, delivered)
                               ELSE outbox
                  /\ audit' = Logged(mailed, q.user, "approved", o, 0)
                  /\ Finish(r, q, "ok", "")
  /\ UNCHANGED << lpoItems, nextItem, grns, stock, seqCounter, itemLock, invLock >>
  /\ UNCHANGED << suppliers, seqLock >>

\* the checks of LPOViewSet.cancel before the save
CancelCheck(u, o) ==
  IF ~is_owner(u) THEN "403"
  ELSE IF ~Visible(u, o) THEN "404"
  ELSE CancelGuard(lpos[o])

\* POST /lpos/{id}/cancel/ up to the save: superuser only, LPO.cancel
CancelRead(r, u, o) ==
  /\ FirstFree(r)
  /\ Exists(o)
  /\ LET q == Arrived("cancel", u, o)
         c == CancelCheck(u, o)
     IN IF c # "ok" THEN Finish(r, q, "fail", c)
        ELSE Continue(r, [ q EXCEPT !.pc = "save",
                                    !.inst = [ lpos[o] EXCEPT !.status = STATUS_CANCELLED ] ])
  /\ UNCHANGED << lpos, lpoItems, nextItem, grns, stock, seqCounter, itemLock, invLock >>
  /\ UNCHANGED << audit, suppliers, seqLock, outbox >>

\* a full-row save of the cancelled instance
CancelSave_FullRow(r) ==
  /\ reqs[r].op = "cancel" /\ reqs[r].pc = "save"
  /\ lpos' = [ lpos EXCEPT ![reqs[r].lpo] = reqs[r].inst ]
  /\ Finish(r, reqs[r], "ok", "")
  /\ audit' = Logged(audit, reqs[r].user, "cancelled", reqs[r].lpo, 0)
  /\ UNCHANGED << lpoItems, nextItem, grns, stock, seqCounter, itemLock, invLock, suppliers, seqLock, outbox >>

\* lpo.save(update_fields=["status"])
CancelSave(r) ==
  /\ reqs[r].op = "cancel" /\ reqs[r].pc = "save"
  /\ LET q == reqs[r]
     IN /\ lpos' = [ lpos EXCEPT ![q.lpo].status = q.inst.status ]
        /\ Finish(r, q, "ok", "")
  /\ UNCHANGED << lpoItems, nextItem, grns, stock, seqCounter, itemLock, invLock >>
  /\ audit' = Logged(audit, reqs[r].user, "cancelled", reqs[r].lpo, 0)
  /\ UNCHANGED << suppliers, seqLock, outbox >>

\* ---------------------------------------------------------------- update
\* primary keys that updates in flight will still consume
Pending ==
  LET f(r) == IF reqs[r].op = "update" /\ reqs[r].hasItems /\ reqs[r].pc \in {"save", "delete", "create"}
              THEN Len(reqs[r].items) ELSE 0
  IN SumSet(f, Req)

\* the checks of an update without the is_editable check of LPOSerializer.update
UpdateCheck_NoEditable(u, o) ==
  IF ~Visible(u, o) THEN "404"
  ELSE IF ~LPOWritePolicy(u, lpos[o]) THEN "403"
  ELSE "ok"

\* the checks of LPOViewSet.update and LPOSerializer.update before the first save
UpdateCheck(u, o) ==
  IF ~Visible(u, o) THEN "404"
  ELSE IF ~LPOWritePolicy(u, lpos[o]) THEN "403"
  ELSE IF ~is_editable(lpos[o]) THEN "not_editable"
  ELSE "ok"

\* PUT/PATCH /lpos/{id}/ up to the first save: get_object, write policy,
\* LPOSerializer.validate, the is_editable check and the setattr loop
UpdateRead(r, u, o, p) ==
  /\ FirstFree(r)
  /\ Exists(o)
  /\ nextItem + Pending + Len(p.items) - 1 <= MaxItemId
  /\ LET q == Arrived("update", u, o)
         c == UpdateCheck(u, o)
         vt == ValidatedTax(p.tax, p.items)
         row == lpos[o]
         inst == [ row EXCEPT
                     !.tax_amount = IF vt.mode = "absent" THEN row.tax_amount ELSE vt.v,
                     !.discount_amount = IF p.disc.mode = "absent" THEN row.discount_amount ELSE p.disc.v ]
     IN IF c # "ok" THEN Finish(r, q, "fail", c)
        ELSE Continue(r, [ q EXCEPT !.pc = "save", !.inst = inst, !.pitems = ItemsOf(o),
                                    !.hasItems = p.hasItems, !.items = p.items,
                                    !.payload = [ NoPayload EXCEPT !.tax = p.tax ] ])
  /\ UNCHANGED << lpos, lpoItems, nextItem, grns, stock, seqCounter, itemLock, invLock >>
  /\ UNCHANGED << audit, suppliers, seqLock, outbox >>

\* instance.save(): every column of the row is written from the instance
UpdSave(r) ==
  /\ reqs[r].op = "update" /\ reqs[r].pc = "save"
  /\ LET q == reqs[r]
     IN /\ lpos' = [ lpos EXCEPT ![q.lpo] = q.inst ]
        /\ Continue(r, [ q EXCEPT !.pc = IF q.hasItems THEN "delete" ELSE "totals" ])
  /\ UNCHANGED << lpoItems, nextItem, grns, stock, seqCounter, itemLock, invLock >>
  /\ UNCHANGED << audit, suppliers, seqLock, outbox >>

\* line item i has GoodsReceiptItem rows
HasReceipts(i) ==
  \E k \in 1..Len(grns) : \E j \in 1..Len(grns[k].items) : grns[k].items[j].lpo_item = i

\* instance.items.all().delete(): GoodsReceiptItem.lpo_item is on_delete=PROTECT
UpdDelete(r) ==
  /\ reqs[r].op = "update" /\ reqs[r].pc = "delete"
  /\ LET q == reqs[r]
         S == ItemsOf(q.lpo)
     IN /\ \A i \in S : itemLock[i] = 0
        /\ IF \E i \in S : HasReceipts(i)
           THEN /\ Finish(r, q, "fail", "protected")
                /\ UNCHANGED lpoItems
           ELSE /\ lpoItems' = [ i \in ItemIds |->
                                   IF i \in S THEN NoItem
                                   ELSE lpoItems[i] ]
                /\ Continue(r, [ q EXCEPT !.pc = "create", !.fresh = TRUE ])
  /\ UNCHANGED << lpos, nextItem, grns, stock, seqCounter, itemLock, invLock >>
  /\ UNCHANGED << audit, suppliers, seqLock, outbox >>

\* for i in items_data: LPOItem.objects.create(lpo=instance, **i)
UpdCreate(r) ==
  /\ reqs[r].op = "update" /\ reqs[r].pc = "create"
  /\ LET q == reqs[r]
     IN /\ lpoItems' = NewItems(q.lpo, q.items, nextItem)
        /\ nextItem' = nextItem + Len(q.items)
        /\ Continue(r, [ q EXCEPT !.pc = "totals" ])
  /\ UNCHANGED << lpos, grns, stock, seqCounter, itemLock, invLock >>
  /\ UNCHANGED << audit, suppliers, seqLock, outbox >>

\* instance.recompute_totals(); instance.save(update_fields=["subtotal", "grand_total"]).
\* instance.items.all() is the prefetched list unless the delete reset its cache.
\* Then the view writes the audit row with payload=request.data inside
\* try/except Exception: pass: when the insert raises (request.data that JSON
\* cannot encode, as a multipart body with a file part) the update is answered
\* 200 all the same and no row is written.
UpdTotals(r) ==
  /\ reqs[r].op = "update" /\ reqs[r].pc = "totals"
  /\ LET q == reqs[r]
         S == IF q.fresh THEN ItemsOf(q.lpo) ELSE q.pitems
         new == recompute_totals(q.inst, S)
     IN /\ lpos' = [ lpos EXCEPT ![q.lpo].subtotal = new.subtotal,
                                 ![q.lpo].grand_total = new.grand_total ]
        /\ Finish(r, q, "ok", "")
  /\ UNCHANGED << lpoItems, nextItem, grns, stock, seqCounter, itemLock, invLock >>
  /\ \E logged \in BOOLEAN :
       audit' = IF logged THEN Logged(audit, reqs[r].user, "update", reqs[r].lpo, 0) ELSE audit
  /\ UNCHANGED << suppliers, seqLock, outbox >>

\* ---------------------------------------------------------------- goods receipt
\* receipt item lists a client may post: existing line items, any order
RECURSIVE SeqsUpTo(_, _)
SeqsUpTo(S, n) ==
  IF n = 0 THEN { << >> }
  ELSE LET T == SeqsUpTo(S, n - 1)
       IN T \cup { Append(t, x) : t \in { t \in T : Len(t) = n - 1 }, x \in S }

GrnPayloads ==
  SeqsUpTo({ [ lpo_item |-> i, qty_received |-> n ] :
               i \in { j \in ItemIds : lpoItems[j].alive }, n \in RecvQtys }, MaxGrnItems)

\* the lists the runs post: none, one item, or an item of 100 then an item of 200
GrnSmall ==
  { g \in GrnPayloads : Len(g) = 2 => g[1].qty_received = 100 /\ g[2].qty_received = 200 }

\* locks of request r are released
Released(lock, r) == [ k \in DOMAIN lock |-> IF lock[k] = r THEN 0 ELSE lock[k] ]

\* a plain read instead of select_for_update: nobody waits
CanLock_NoWait(lock, k, r) == TRUE

\* a row lock can be taken by r: nobody else holds it
CanLock(lock, k, r) == lock[k] \in {0, r}

\* validate without the status guard
RecvCheck_NoGuard(o, gitems) ==
  IF gitems = << >> THEN "no_items" ELSE "ok"

\* GoodsReceiptSerializer.validate and the empty check of create
RecvCheck(o, gitems) ==
  IF lpos[o].status \notin {STATUS_APPROVED, STATUS_PARTIAL} THEN "status"
  ELSE IF gitems = << >> THEN "no_items"
  ELSE "ok"

\* POST /grn/ up to the first lock: GoodsReceiptSerializer.validate, the empty
\* check of create, the start of the transaction and the insert of the receipt
RecvValidate(r, u, o, gitems) ==
  /\ FirstFree(r)
  /\ Exists(o)
  /\ LET q == [ Arrived("receive", u, o) EXCEPT !.gitems = gitems ]
         c == RecvCheck(o, gitems)
     IN IF c # "ok" THEN Finish(r, q, "fail", c)
        ELSE Continue(r, [ q EXCEPT !.pc = "lock", !.idx = 1, !.inst = lpos[o] ])
  /\ UNCHANGED << lpos, lpoItems, nextItem, grns, stock, seqCounter, itemLock, invLock >>
  /\ UNCHANGED << audit, suppliers, seqLock, outbox >>

\* after an item: the stock update, the next item or the status refresh
AfterInsert(q, i) ==
  IF lpoItems[i].inv # NoInv THEN [ q EXCEPT !.pc = "stock" ]
  ELSE IF q.idx < Len(q.gitems) THEN [ q EXCEPT !.idx = q.idx + 1 ]
  ELSE [ q EXCEPT !.pc = "refresh" ]

\* a remaining check that lets one more unit through
Exceeds_Loose(qty_received, remaining) == qty_received > remaining + 100

\* the remaining check of create: the item asks for more than is left
Exceeds(qty_received, remaining) == qty_received > remaining

\* receipts without transaction.atomic(): the rows inserted before the error stay
Rollback_KeepsRows(table, q) ==
  IF q.txItems = << >> THEN table
  ELSE Append(table, [ lpo |-> q.lpo, received_by |-> q.user, items |-> q.txItems ])

\* the receipts table after the atomic block of request q is left by an
\* exception: the rows q inserted are rolled back
Rollback(table, q) == table

\* select_for_update().get(pk), the remaining check and the insert of the item;
\* a failed check leaves the atomic block: nothing of the receipt is kept
RecvLockItem(r) ==
  /\ reqs[r].op = "receive" /\ reqs[r].pc = "lock"
  /\ LET q == reqs[r]
         it == q.gitems[q.idx]
         i == it.lpo_item
         remaining == lpoItems[i].qty - total_received(r, i)
     IN /\ CanLock(itemLock, i, r)
        /\ IF ~lpoItems[i].alive \/ Exceeds(it.qty_received, remaining)
           THEN /\ Finish(r, q, "fail", IF lpoItems[i].alive THEN "exceeds" ELSE "gone")
                /\ grns' = Rollback(grns, q)
                /\ itemLock' = Released(itemLock, r)
                /\ invLock' = Released(invLock, r)
           ELSE /\ Continue(r, AfterInsert([ q EXCEPT !.txItems = Append(q.txItems, it) ], i))
                /\ itemLock' = [ itemLock EXCEPT ![i] = r ]
                /\ UNCHANGED << grns, invLock >>
  /\ UNCHANGED << lpos, lpoItems, nextItem, stock, seqCounter >>
  /\ UNCHANGED << audit, suppliers, seqLock, outbox >>

\* type(inv).objects.filter(pk=inv.pk).update(quantity=F("quantity") + qty_received)
RecvStock(r) ==
  /\ reqs[r].op = "receive" /\ reqs[r].pc = "stock"
  /\ LET q == reqs[r]
         v == lpoItems[q.gitems[q.idx].lpo_item].inv
     IN /\ CanLock(invLock, v, r)
        /\ invLock' = [ invLock EXCEPT ![v] = r ]
        /\ Continue(r, IF q.idx < Len(q.gitems) THEN [ q EXCEPT !.pc = "lock", !.idx = q.idx + 1 ]
                       ELSE [ q EXCEPT !.pc = "refresh" ])
  /\ UNCHANGED << lpos, lpoItems, nextItem, grns, stock, seqCounter, itemLock >>
  /\ UNCHANGED << audit, suppliers, seqLock, outbox >>

\* LPO.refresh_receive_status on the instance read by validate
refresh_receive_status(r, row, o) ==
  LET qty(i) == lpoItems[i].qty
      rec(i) == total_received(r, i)
      total_ordered == SumSet(qty, ItemsOf(o))
      total == SumSet(rec, ItemsOf(o))
  IN IF total = 0 THEN row
     ELSE IF total >= total_ordered THEN [ row EXCEPT !.status = STATUS_FULFILLED ]
     ELSE [ row EXCEPT !.status = STATUS_PARTIAL ]

\* lpo.refresh_receive_status(): the totals are read inside the transaction
RecvRefresh(r) ==
  /\ reqs[r].op = "receive" /\ reqs[r].pc = "refresh"
  /\ LET q == reqs[r]
     IN Continue(r, [ q EXCEPT !.pc = "commit",
                               !.inst = refresh_receive_status(r, q.inst, q.lpo) ])
  /\ UNCHANGED << lpos, lpoItems, nextItem, grns, stock, seqCounter, itemLock, invLock >>
  /\ UNCHANGED << audit, suppliers, seqLock, outbox >>

\* stock increase of inventory row v by the receipt items of a transaction
StockDelta(tx, v) ==
  LET f(it) == IF lpoItems[it.lpo_item].inv = v THEN it.qty_received ELSE 0 IN SumSeq(f, tx)

\* lpo.save(update_fields=["status"]) and the end of transaction.atomic(): the
\* receipt, its items, the stock and the order status become visible and the
\* row locks are released
RecvCommit(r) ==
  /\ reqs[r].op = "receive" /\ reqs[r].pc = "commit"
  /\ LET q == reqs[r]
     IN /\ grns' = Append(grns, [ lpo |-> q.lpo, received_by |-> q.user, items |-> q.txItems ])
        /\ stock' = [ v \in Inv |-> stock[v] + StockDelta(q.txItems, v) ]
        /\ lpos' = [ lpos EXCEPT ![q.lpo].status = q.inst.status ]
        /\ Finish(r, q, "ok", "")
  /\ itemLock' = Released(itemLock, r)
  /\ invLock' = Released(invLock, r)
  /\ UNCHANGED << lpoItems, nextItem, seqCounter >>
  /\ audit' = Logged(Logged(audit, reqs[r].user, "received", reqs[r].lpo, Len(grns) + 1),
                      reqs[r].user, "create", 0, Len(grns) + 1)
  /\ UNCHANGED << suppliers, seqLock, outbox >>

\* ---------------------------------------------------------------- specifications
Lifecycle ==
  \/ \E r \in Req, u \in Submitters, o \in Orders : SubmitRead(r, u, o)
  \/ \E r \in Req : SubmitSave(r)
  \/ \E r \in Req, u \in Approvers, o \in Orders : ApproveRead(r, u, o)
  \/ \E r \in Req : ApproveSave(r)
  \/ \E r \in Req, u \in Cancellers, o \in Orders : CancelRead(r, u, o)
  \/ \E r \in Req : CancelSave(r)

\* orders through their whole life, with concurrent goods receipts
Next ==
  \/ \E u \in Creators, o \in Orders, p \in CreatePayloads : CreateLPO(u, o, p)
  \/ Lifecycle
  \/ \E r \in Req, u \in Receivers, o \in Orders : \E g \in GrnSmall : RecvValidate(r, u, o, g)
  \/ \E r \in Req : RecvLockItem(r)
  \/ \E r \in Req : RecvStock(r)
  \/ \E r \in Req : RecvRefresh(r)
  \/ \E r \in Req : RecvCommit(r)

Spec == Init /\ [][Next]_vars

\* no worker is serving an update
NoUpdateInFlight == \A s \in Req : reqs[s].op # "update"

\* orders created and edited, one edit at a time, while submit and approve
\* requests interleave with the steps of the edit
NextTotals ==
  \/ \E u \in Creators, o \in Orders, p \in CreatePayloads : CreateLPO(u, o, p)
  \/ \E r \in Req, u \in Updaters, o \in Orders, p \in UpdatePayloads :
       NoUpdateInFlight /\ UpdateRead(r, u, o, p)
  \/ \E r \in Req : UpdSave(r)
  \/ \E r \in Req : UpdDelete(r)
  \/ \E r \in Req : UpdCreate(r)
  \/ \E r \in Req : UpdTotals(r)
  \/ \E r \in Req, u \in Submitters, o \in Orders : SubmitRead(r, u, o)
  \/ \E r \in Req : SubmitSave(r)
  \/ \E r \in Req, u \in Approvers, o \in Orders : ApproveRead(r, u, o)
  \/ \E r \in Req : ApproveSave(r)

SpecTotals == Init /\ [][NextTotals]_vars

\* ---------------------------------------------------------------- the race of two receipts
\* quantities of the two racing receipts
RaceQtys == {50, 100, 200, 300}

\* the users of the two racing requests, by worker
Racer(r) == IF r = 1 THEN "staff" ELSE "manager"

\* an approved one-line order of 3.00, of which `prior` was received before
RaceOrder(prior) ==
  [ NoLPO EXCEPT !.status = IF prior = 0 THEN STATUS_APPROVED ELSE STATUS_PARTIAL,
                 !.subtotal = 300, !.grand_total = 300,
                 !.created_by = "staff", !.submitted_by = "staff", !.submitted_at = TRUE,
                 !.approved_by = "manager", !.approved_at = TRUE, !.lpo_number = 1,
                 !.supplier = 1 ]

\* the audit rows of order o after staff created and submitted it and the
\* manager approved it
ApprovedLog(o) ==
  { [ actor |-> "staff", verb |-> "create", lpo |-> o, grn |-> 0 ],
    [ actor |-> "staff", verb |-> "submitted", lpo |-> o, grn |-> 0 ],
    [ actor |-> "", verb |-> "emailed", lpo |-> o, grn |-> 0 ],
    [ actor |-> "manager", verb |-> "approved", lpo |-> o, grn |-> 0 ] }

\* a receipt of quantity n on line item 1, validated and about to lock the item
RaceRequest(r, n, prior) ==
  [ Arrived("receive", Racer(r), 1) EXCEPT
      !.gitems = << [ lpo_item |-> 1, qty_received |-> n ] >>,
      !.pc = "lock", !.idx = 1, !.inst = RaceOrder(prior) ]

\* two receipts on the same line item have passed validation together; each
\* fits in what remains of the line, both together do not
InitRace ==
  \E prior \in {0, 100, 200}, n1 \in RaceQtys, n2 \in RaceQtys :
    /\ n1 <= 300 - prior /\ n2 <= 300 - prior /\ n1 + n2 > 300 - prior
    /\ lpos = [ o \in 1..MaxOrders |-> IF o = 1 THEN RaceOrder(prior) ELSE NoLPO ]
    /\ lpoItems = [ i \in ItemIds |->
                      IF i = 1 THEN [ lpo |-> 1, qty |-> 300, unit_price |-> 100,
                                      line_total |-> LineTotal(300, 100), inv |-> 1, alive |-> TRUE ]
                      ELSE NoItem ]
    /\ nextItem = 2
    /\ grns = IF prior = 0 THEN << >>
              ELSE << [ lpo |-> 1, received_by |-> "owner",
                        items |-> << [ lpo_item |-> 1, qty_received |-> prior ] >> ] >>
    /\ stock = [ v \in Inv |-> prior ]
    /\ seqCounter = 2
    /\ itemLock = [ i \in ItemIds |-> 0 ]
    /\ invLock = [ v \in Inv |-> 0 ]
    /\ reqs = [ r \in Req |-> IF r = 1 THEN RaceRequest(1, n1, prior)
                              ELSE IF r = 2 THEN RaceRequest(2, n2, prior)
                              ELSE Idle ]
    /\ resp = NoResp
    /\ audit = IF prior = 0 THEN ApprovedLog(1)
               ELSE Logged(Logged(ApprovedLog(1), "owner", "received", 1, 1), "owner", "create", 0, 1)
    /\ suppliers = << AcmeRow >>
    /\ seqLock = [ y \in {Year} |-> 0 ]
    /\ outbox = {}

NextRace ==
  \/ \E r \in Req : RecvLockItem(r)
  \/ \E r \in Req : RecvStock(r)
  \/ \E r \in Req : RecvRefresh(r)
  \/ \E r \in Req : RecvCommit(r)

SpecRace == InitRace /\ [][NextRace]_vars

\* ---------------------------------------------------------------- properties
\* a request op of user u on order o is refused as soon as it arrives
Rejected(op, u, o) ==
  /\ resp'.op = op /\ resp'.user = u /\ resp'.lpo = o /\ resp'.result = "fail"
  /\ reqs' = reqs

\* a request op of user u on order o arrives, passes its checks and a worker goes on with it
Accepted(op, u, o) ==
  \E r \in Req : /\ reqs[r].pc = "idle"
                 /\ reqs'[r].op = op /\ reqs'[r].user = u /\ reqs'[r].lpo = o

\* the step in which a request op of user u on order o arrives and is checked
Arrives(op, u, o) == Rejected(op, u, o) \/ Accepted(op, u, o)

\* total quantity ordered and total quantity received of order o
TotalOrdered(o) == LET f(i) == lpoItems[i].qty IN SumSet(f, ItemsOf(o))

TotalReceived(o) == SumSet(Committed, ItemsOf(o))

\* C1: in every reachable state, for every order line item, the quantities of
\* all receipt items that reference it sum to at most the ordered quantity
C1_ReceivedWithinOrdered ==
  \A i \in ItemIds : lpoItems[i].alive => Committed(i) <= lpoItems[i].qty

\* a line is fully received by several receipts and a further receipt was refused
C1_Witness ==
  /\ resp.op = "receive" /\ resp.why = "exceeds"
  /\ Len(grns) >= 2
  /\ \E i \in ItemIds : lpoItems[i].alive /\ Committed(i) = lpoItems[i].qty

\* a racing receipt has been committed
Succeeded(u) == \E k \in 1..Len(grns) : grns[k].received_by = u

\* C2: of two concurrent receipts on the same line item, each within the
\* remaining quantity and together above it, never both succeed, and when both
\* are over exactly one has succeeded
C2_ExactlyOneSucceeds ==
  /\ ~(Succeeded(Racer(1)) /\ Succeeded(Racer(2)))
  /\ (\A r \in Req : Free(r)) => (Succeeded(Racer(1)) \/ Succeeded(Racer(2)))

\* both racers are over: the second one won and the first was refused
C2_Witness ==
  /\ \A r \in Req : Free(r)
  /\ Succeeded(Racer(2)) /\ ~Succeeded(Racer(1))
  /\ resp.op = "receive" /\ resp.user = Racer(1) /\ resp.why = "exceeds"

\* C3: in every committed state every order has
\* grand_total = subtotal + tax_amount - discount_amount
C3_GrandTotal ==
  \A o \in Orders :
    Exists(o) => lpos[o].grand_total = lpos[o].subtotal + lpos[o].tax_amount - lpos[o].discount_amount

\* C4: after a successful create or update the subtotal of the order is the
\* sum of quantity times unit price over its line items, and every line_total
\* is quantity times unit price (amounts in hundredths, products in ten-thousandths)
C4_SubtotalIsSumOfLines ==
  (resp.op \in {"create", "update"} /\ resp.result = "ok") =>
    LET o == resp.lpo
        f(i) == lpoItems[i].qty * lpoItems[i].unit_price
    IN /\ lpos[o].subtotal * 100 = SumSet(f, ItemsOf(o))
       /\ \A i \in ItemsOf(o) : lpoItems[i].line_total * 100 = f(i)

\* C5: a submit request on an order that has no line items, or whose
\* grand_total is not positive, or that is not a draft, is refused, and the
\* order (status, submitter, submission time) stays as it was
C5_SubmitRefused ==
  [][ \A u \in Users, o \in Orders :
        ( /\ Arrives("submit", u, o)
          /\ \/ Cardinality(ItemsOf(o)) = 0
             \/ lpos[o].grand_total <= 0
             \/ lpos[o].status # STATUS_DRAFT )
        => ( Rejected("submit", u, o) /\ lpos' = lpos ) ]_vars

\* a submit was refused for an order that is a draft without line items
C5_Witness ==
  /\ resp.op = "submit" /\ resp.result = "fail" /\ resp.why = "empty"
  /\ lpos[resp.lpo].status = STATUS_DRAFT
  /\ ItemsOf(resp.lpo) = {}

\* C6: an approve request on an order that is not submitted is refused, and
\* the order (status, approver, approval time) stays as it was
C6_ApproveRefused ==
  [][ \A u \in Users, o \in Orders :
        ( Arrives("approve", u, o) /\ lpos[o].status # STATUS_SUBMITTED )
        => ( Rejected("approve", u, o) /\ lpos' = lpos ) ]_vars

\* a manager's approve was refused for an order that is not submitted
C6_Witness ==
  /\ resp.op = "approve" /\ resp.user = "manager" /\ resp.why = "status"
  /\ lpos[resp.lpo].status \in {STATUS_DRAFT, STATUS_FULFILLED}

\* C7: a cancel request of a user who may cancel is refused, the order
\* unchanged, when the order is fulfilled or cancelled; on a draft, submitted,
\* approved or partially received order it is accepted and sets the status to
\* cancelled
C7_Cancel ==
  [][ \A u \in Users, o \in Orders :
        is_owner(u) =>
          /\ ( Arrives("cancel", u, o)
               /\ lpos[o].status \in {STATUS_FULFILLED, STATUS_CANCELLED} )
             => ( Rejected("cancel", u, o) /\ lpos' = lpos )
          /\ ( Arrives("cancel", u, o) /\ ~lpos[o].deleted
               /\ lpos[o].status \in {STATUS_DRAFT, STATUS_SUBMITTED, STATUS_APPROVED, STATUS_PARTIAL} )
             => Accepted("cancel", u, o)
          /\ \A r \in Req :
               ( reqs[r].op = "cancel" /\ reqs[r].user = u /\ reqs[r].lpo = o /\ reqs'[r] # reqs[r] )
               => ( lpos'[o].status = STATUS_CANCELLED /\ resp'.op = "cancel" /\ resp'.result = "ok" ) ]_vars

\* the owner has cancelled an order of which goods had been received
C7_Witness ==
  /\ resp.op = "cancel" /\ resp.user = "owner" /\ resp.result = "ok"
  /\ lpos[resp.lpo].status = STATUS_CANCELLED
  /\ grns # << >>

\* C8: after a successful receipt the order is fulfilled if the total received
\* over its line items is at least the total ordered, and partially received
\* otherwise
C8_StatusAfterReceipt ==
  (resp.op = "receive" /\ resp.result = "ok") =>
    lpos[resp.lpo].status =
      IF TotalReceived(resp.lpo) >= TotalOrdered(resp.lpo) THEN STATUS_FULFILLED ELSE STATUS_PARTIAL

\* the receipt item request r is at asks for more than remains of its line
AsksTooMuch(r) ==
  LET it == reqs[r].gitems[reqs[r].idx]
      i == it.lpo_item
  IN it.qty_received > lpoItems[i].qty - (Committed(i) + QtyIn(reqs[r].txItems, i))

\* C9: a receipt whose item asks for more than remains of its line fails as a
\* whole: a failed receipt leaves no goods receipt, no receipt item of its
\* earlier items, no stock change and no change of the order
C9_AllOrNothing ==
  [][ /\ \A r \in Req :
           ( reqs[r].op = "receive" /\ reqs[r].pc = "lock" /\ reqs'[r] # reqs[r] /\ AsksTooMuch(r) )
           => ( resp'.op = "receive" /\ resp'.result = "fail" )
      /\ ( resp'.op = "receive" /\ resp'.result = "fail" )
         => ( grns' = grns /\ stock' = stock /\ lpos' = lpos
              /\ \A r \in Req : reqs'[r] # reqs[r] => reqs'[r] = Idle ) ]_vars

\* a receipt was refused at its second item, after a first item that fitted
C9_Witness ==
  /\ resp.op = "receive" /\ resp.result = "fail" /\ resp.why = "exceeds"
  /\ resp.idx = 2

\* C10: a receipt request on an order that is neither approved nor partially
\* received is refused by the status guard; no goods receipt is created and
\* received quantities, stock and the order stay as they were
C10_StatusGuard ==
  [][ \A u \in Users, o \in Orders :
        ( Arrives("receive", u, o) /\ lpos[o].status \notin {STATUS_APPROVED, STATUS_PARTIAL} )
        => ( /\ Rejected("receive", u, o) /\ resp'.why = "status"
             /\ grns' = grns /\ stock' = stock /\ lpos' = lpos ) ]_vars

\* a receipt on a fulfilled order was refused by the status guard
C10_Witness ==
  /\ resp.op = "receive" /\ resp.why = "status"
  /\ lpos[resp.lpo].status = STATUS_FULFILLED

\* order o has a single line item and all of it has been received
FullyReceivedSingle(o) ==
  /\ Exists(o)
  /\ Cardinality(ItemsOf(o)) = 1
  /\ \A i \in ItemsOf(o) : Committed(i) = lpoItems[i].qty

\* C11 as stated: a receipt refused on a fully received single-line order is
\* refused with the 'qty exceeds remaining' error
C11_RefusedAsExceeds ==
  ( resp.op = "receive" /\ resp.result = "fail" /\ resp.why # "no_items"
    /\ FullyReceivedSingle(resp.lpo) )
  => resp.why = "exceeds"

\* C11 (amended): a further receipt on a fully received single-line order
\* fails and changes nothing; it is refused on arrival by the status guard
\* unless the order is approved or partially received, and a request that is
\* past the status guard is refused with 'qty exceeds remaining'
C11_FurtherReceiptFails ==
  [][ /\ \A u \in Users, o \in Orders :
           ( /\ Arrives("receive", u, o) /\ FullyReceivedSingle(o)
             /\ lpos[o].status \notin {STATUS_APPROVED, STATUS_PARTIAL} )
           => ( /\ Rejected("receive", u, o) /\ resp'.why = "status"
                /\ grns' = grns /\ stock' = stock /\ lpos' = lpos )
      /\ \A r \in Req :
           ( /\ reqs[r].op = "receive" /\ reqs[r].pc = "lock" /\ reqs'[r] # reqs[r]
             /\ FullyReceivedSingle(reqs[r].lpo)
             /\ reqs[r].gitems[reqs[r].idx].lpo_item \in ItemsOf(reqs[r].lpo) )
           => ( /\ resp'.op = "receive" /\ resp'.result = "fail" /\ resp'.why = "exceeds"
                /\ grns' = grns /\ stock' = stock /\ lpos' = lpos ) ]_vars

\* a receipt that had passed the status guard was refused with 'qty exceeds
\* remaining' on a single-line order that is fulfilled
C11_Witness ==
  /\ resp.op = "receive" /\ resp.result = "fail" /\ resp.why = "exceeds"
  /\ FullyReceivedSingle(resp.lpo)
  /\ lpos[resp.lpo].status = STATUS_FULFILLED

\* ---------------------------------------------------------------- receipts with two orders
\* an approved one-line order (1.00 at 3.00) with order number n
CrossOrder(n) == [ RaceOrder(0) EXCEPT !.lpo_number = n ]

\* two approved orders of the same supplier, numbered 1 and 3 (the supplier
\* took 2): line item 1 belongs to order 1, line item 2 to order 2
InitCross ==
  /\ lpos = [ o \in 1..(MaxOrders + 1) |-> IF o = 1 THEN CrossOrder(1)
                                        ELSE IF o = 2 THEN CrossOrder(3)
                                        ELSE NoLPO ]
  /\ lpoItems = [ i \in ItemIds |->
                    IF i <= 2 THEN [ lpo |-> i, qty |-> 100, unit_price |-> 300,
                                     line_total |-> LineTotal(100, 300), inv |-> 1, alive |-> TRUE ]
                    ELSE NoItem ]
  /\ nextItem = 3
  /\ grns = << >>
  /\ stock = [ v \in Inv |-> 0 ]
  /\ seqCounter = 3
  /\ itemLock = [ i \in ItemIds |-> 0 ]
  /\ invLock = [ v \in Inv |-> 0 ]
  /\ reqs = [ r \in Req |-> Idle ]
  /\ resp = NoResp
  /\ audit = ApprovedLog(1) \cup ApprovedLog(2)
  /\ suppliers = << AcmeRow >>
  /\ seqLock = [ y \in {Year} |-> 0 ]
  /\ outbox = {}

\* receipts posted against either order, naming any existing line item
NextCross ==
  \/ \E r \in Req, u \in Receivers, o \in Orders : \E g \in GrnSmall : RecvValidate(r, u, o, g)
  \/ \E r \in Req : RecvLockItem(r)
  \/ \E r \in Req : RecvStock(r)
  \/ \E r \in Req : RecvRefresh(r)
  \/ \E r \in Req : RecvCommit(r)

SpecCross == InitCross /\ [][NextCross]_vars

\* C12: every persisted receipt item references a line item of the order of
\* its goods receipt, so a receipt against one order never changes the
\* received quantity of a line item of another order
C12_ReceiptItemsOfSameOrder ==
  \A k \in 1..Len(grns) : \A j \in 1..Len(grns[k].items) :
    lpoItems[grns[k].items[j].lpo_item].lpo = grns[k].lpo

\* ---------------------------------------------------------------- the yearly sequence
\* supplier names clients send; "" stands for a payload without supplier
SupplierNames == {"acme", "ACME", "bolt"}

\* POST /lpos/ payloads of one line, with and without a supplier name
SeqPayloads ==
  { [ NoPayload EXCEPT !.items = Fraction, !.supplier_name = nm ] : nm \in SupplierNames \cup {""} }

\* creates that hold the sequence row and have not committed
CreatesInFlight == { s \in Req : reqs[s].op = "create" }

\* the primary key the next inserted order takes
NewOrder == CHOOSE o \in Orders : ~Exists(o) /\ \A b \in Orders : b < o => Exists(b)

\* POST /lpos/ : perform_create enters transaction.atomic() and locks the
\* sequence row with select_for_update().get_or_create(year); the counter it
\* reads plus one is the number of the order
CreateBegin(r, u, p) ==
  /\ FirstFree(r)
  /\ Cardinality({ o \in Orders : Exists(o) }) + Cardinality(CreatesInFlight) < Cardinality(Orders)
  /\ nextItem + Cardinality(CreatesInFlight) + Len(p.items) - 1 <= MaxItemId
  /\ seqCounter + 2 <= MaxSeq
  /\ CanLock(seqLock, Year, r)
  /\ seqLock' = [ seqLock EXCEPT ![Year] = r ]
  /\ UNCHANGED outbox
  /\ Continue(r, [ Arrived("create", u, 0) EXCEPT !.pc = "save", !.n = seqCounter + 1, !.payload = p ])
  /\ UNCHANGED << lpos, lpoItems, nextItem, grns, stock, seqCounter, itemLock, invLock, audit, suppliers >>

\* the block runs to its end and commits: counter, supplier, header, line
\* items, totals and audit row become visible together, the lock is released
CreateCommit(r) ==
  /\ reqs[r].op = "create" /\ reqs[r].pc = "save"
  /\ reqs[r].payload.supplier_name # ""
  /\ LET q == reqs[r]
         o == NewOrder
     IN /\ Create(q.user, o, q.payload, q.n)
        /\ Finish(r, [ q EXCEPT !.lpo = o ], "ok", "")
  /\ seqLock' = Released(seqLock, r)
  /\ UNCHANGED outbox
  /\ UNCHANGED << grns, stock, itemLock, invLock >>

\* the sequence counter without the atomic block of perform_create: the
\* increment is committed by its own statement
AbortedCounter_NoOuterAtomic(counter, q) == q.n

\* the sequence counter after the atomic block of request q is left by an
\* exception: the increment q wrote is rolled back
AbortedCounter(counter, q) == counter

\* a statement of the block raises: _ensure_supplier finds neither supplier
\* nor supplier_name, or an insert or save fails; the transaction is rolled back
CreateAbort(r) ==
  /\ reqs[r].op = "create" /\ reqs[r].pc = "save"
  /\ LET q == reqs[r]
     IN /\ seqCounter' = AbortedCounter(seqCounter, q)
        /\ Finish(r, q, "fail", IF q.payload.supplier_name = "" THEN "supplier" ELSE "error")
  /\ seqLock' = Released(seqLock, r)
  /\ UNCHANGED outbox
  /\ UNCHANGED << lpos, lpoItems, nextItem, grns, stock, itemLock, invLock, audit, suppliers >>

\* POST /suppliers/ : SupplierSerializer.create calls next_supplier_code, whose
\* atomic block locks the sequence row and reads the counter
SupLock(r, u, name) ==
  /\ FirstFree(r)
  /\ seqCounter + 1 <= MaxSeq
  /\ CanLock(seqLock, Year, r)
  /\ seqLock' = [ seqLock EXCEPT ![Year] = r ]
  /\ UNCHANGED outbox
  /\ Continue(r, [ Arrived("supplier", u, 0) EXCEPT
                     !.pc = "alloc", !.n = seqCounter + 1,
                     !.payload = [ NoPayload EXCEPT !.supplier_name = name ] ])
  /\ UNCHANGED << lpos, lpoItems, nextItem, grns, stock, seqCounter, itemLock, invLock, audit, suppliers >>

\* _next_year_counter saves the counter and its atomic block commits
SupCommit(r) ==
  /\ reqs[r].op = "supplier" /\ reqs[r].pc = "alloc"
  /\ seqCounter' = reqs[r].n
  /\ seqLock' = Released(seqLock, r)
  /\ UNCHANGED outbox
  /\ Continue(r, [ reqs[r] EXCEPT !.pc = "insert" ])
  /\ UNCHANGED << lpos, lpoItems, nextItem, grns, stock, itemLock, invLock, audit, suppliers >>

\* super().create(validated_data): the supplier row is inserted with the code
SupInsert(r) ==
  /\ reqs[r].op = "supplier" /\ reqs[r].pc = "insert"
  /\ suppliers' = Append(suppliers, SupplierRow(reqs[r].n, reqs[r].payload))
  /\ Finish(r, reqs[r], "ok", "")
  /\ UNCHANGED << lpos, lpoItems, nextItem, grns, stock, seqCounter, itemLock, invLock, audit, seqLock, outbox >>

\* no order, no supplier, two places for orders
InitSeq ==
  /\ lpos = [ o \in 1..(MaxOrders + 1) |-> NoLPO ]
  /\ lpoItems = [ i \in ItemIds |-> NoItem ]
  /\ nextItem = 1
  /\ grns = << >>
  /\ stock = [ v \in Inv |-> 0 ]
  /\ seqCounter = 0
  /\ itemLock = [ i \in ItemIds |-> 0 ]
  /\ invLock = [ v \in Inv |-> 0 ]
  /\ reqs = [ r \in Req |-> Idle ]
  /\ resp = NoResp
  /\ audit = {}
  /\ suppliers = << >>
  /\ seqLock = [ y \in {Year} |-> 0 ]
  /\ outbox = {}

\* concurrent creations of orders and of suppliers
NextSeq ==
  \/ \E r \in Req, u \in Creators, p \in SeqPayloads : CreateBegin(r, u, p)
  \/ \E r \in Req : CreateCommit(r)
  \/ \E r \in Req : CreateAbort(r)
  \/ \E r \in Req, u \in Creators, name \in SupplierNames : SupLock(r, u, name)
  \/ \E r \in Req : SupCommit(r)
  \/ \E r \in Req : SupInsert(r)

SpecSeq == InitSeq /\ [][NextSeq]_vars

\* ---------------------------------------------------------------- claims on the sequence
\* values of the sequence that allocations have returned: the numbers of the
\* orders, the codes of the suppliers, and the codes of supplier requests whose
\* allocation has committed and whose row is not inserted yet
OrderNumbers == { lpos[o].lpo_number : o \in { b \in Orders : Exists(b) } }
SupplierCodes == { suppliers[k].supplier_code : k \in 1..Len(suppliers) }
CodesInHand == { reqs[r].n : r \in { s \in Req : reqs[s].op = "supplier" /\ reqs[s].pc = "insert" } }
Issued == OrderNumbers \cup SupplierCodes \cup CodesInHand

\* the number of committed allocations
Allocations ==
  Cardinality({ b \in Orders : Exists(b) }) + Len(suppliers)
    + Cardinality({ s \in Req : reqs[s].op = "supplier" /\ reqs[s].pc = "insert" })

\* C13: the committed allocations of the year returned pairwise distinct
\* values (so no two orders share a number and no two suppliers a code), and
\* every allocation that commits returns a value greater than every value
\* committed before it
C13_DistinctIncreasing ==
  /\ [](Cardinality(Issued) = Allocations /\ \A v \in Issued : v <= seqCounter)
  /\ [][ seqCounter' >= seqCounter /\ \A v \in Issued' \ Issued : v > seqCounter ]_vars

\* two suppliers and two orders exist, one of the orders created with a new supplier
C13_Witness ==
  /\ \A o \in Orders : Exists(o)
  /\ Len(suppliers) >= 2
  /\ seqCounter >= 4

\* C14: the k-th order created in the year carries counter value k, however
\* many supplier codes were issued in between
C14_OrderNumberIsOrdinal ==
  \A o \in Orders : Exists(o) => lpos[o].lpo_number = o

\* C15: when the creation of an order fails, no order, no line item, no
\* supplier and no audit row is persisted and the sequence counter keeps its value
C15_CreateAtomic ==
  [][ \A r \in Req :
        ( reqs[r].op = "create" /\ reqs'[r] = Idle /\ resp'.op = "create" /\ resp'.result = "fail" )
        => ( /\ lpos' = lpos /\ lpoItems' = lpoItems /\ nextItem' = nextItem
             /\ audit' = audit /\ suppliers' = suppliers /\ seqCounter' = seqCounter ) ]_vars

\* a creation without supplier failed after it had taken a number, while
\* another order exists
C15_Witness ==
  /\ resp.op = "create" /\ resp.result = "fail" /\ resp.why = "supplier"
  /\ \E o \in Orders : Exists(o)
  /\ seqLock[Year] = 0

\* ---------------------------------------------------------------- claims on the status
\* the status changes of the lifecycle: creation, submit, approve, receive, cancel
LegalChange(a, b) ==
  \/ a = NoStatus /\ b = STATUS_DRAFT
  \/ a = STATUS_DRAFT /\ b = STATUS_SUBMITTED
  \/ a = STATUS_SUBMITTED /\ b = STATUS_APPROVED
  \/ a \in {STATUS_APPROVED, STATUS_PARTIAL} /\ b \in {STATUS_PARTIAL, STATUS_FULFILLED}
  \/ a \in {STATUS_DRAFT, STATUS_SUBMITTED, STATUS_APPROVED, STATUS_PARTIAL} /\ b = STATUS_CANCELLED

\* C16: every order starts in draft and every change of the status of an order
\* is one of the changes of the lifecycle
C16_OnlyLegalChanges ==
  [][ \A o \in Orders :
        lpos'[o].status # lpos[o].status => LegalChange(lpos[o].status, lpos'[o].status) ]_vars

\* the goods receipts recorded against order o
ReceiptsOf(o) == SelectSeq(grns, LAMBDA g : g.lpo = o)

\* C17: once an order is cancelled no step of any request changes its status
\* or adds a receipt to it
C17_CancelledIsTerminal ==
  [][ \A o \in Orders :
        lpos[o].status = STATUS_CANCELLED
        => ( lpos'[o].status = STATUS_CANCELLED /\ ReceiptsOf(o)' = ReceiptsOf(o) ) ]_vars

\* C18: once an order is fulfilled no step of any request changes its status
\* or adds a receipt to it
C18_FulfilledIsTerminal ==
  [][ \A o \in Orders :
        lpos[o].status = STATUS_FULFILLED
        => ( lpos'[o].status = STATUS_FULFILLED /\ ReceiptsOf(o)' = ReceiptsOf(o) ) ]_vars

\* ---------------------------------------------------------------- edits and deletions
\* DELETE /lpos/{id}/ up to the save: get_object and the write policy; the
\* status of the order is not looked at
DestroyCheck(u, o) ==
  IF ~Visible(u, o) THEN "404"
  ELSE IF ~LPOWritePolicy(u, lpos[o]) THEN "403"
  ELSE "ok"

\* LPOViewSet.destroy: the order is loaded and checked
DestroyRead(r, u, o) ==
  /\ FirstFree(r)
  /\ Exists(o)
  /\ LET q == Arrived("destroy", u, o)
         c == DestroyCheck(u, o)
     IN IF c # "ok" THEN Finish(r, q, "fail", c)
        ELSE Continue(r, [ q EXCEPT !.pc = "save" ])
  /\ UNCHANGED << lpos, lpoItems, nextItem, grns, stock, seqCounter, itemLock, invLock >>
  /\ UNCHANGED << audit, suppliers, seqLock, outbox >>

\* lpo.deleted = True; lpo.save(update_fields=["deleted"]) and the audit row
DestroySave(r) ==
  /\ reqs[r].op = "destroy" /\ reqs[r].pc = "save"
  /\ lpos' = [ lpos EXCEPT ![reqs[r].lpo].deleted = TRUE ]
  /\ audit' = Logged(audit, reqs[r].user, "soft_delete", reqs[r].lpo, 0)
  /\ Finish(r, reqs[r], "ok", "")
  /\ UNCHANGED << lpoItems, nextItem, grns, stock, seqCounter, itemLock, invLock, suppliers, seqLock, outbox >>

Statuses ==
  { STATUS_DRAFT, STATUS_SUBMITTED, STATUS_APPROVED, STATUS_PARTIAL, STATUS_FULFILLED, STATUS_CANCELLED }

\* the one-line order of 3.00 created by staff, brought to status s: submitted
\* by staff, approved by the manager, received by the owner (1.00 for
\* partially_received, 3.00 for fulfilled), or cancelled by the owner after approval
EditOrder(s) ==
  [ RaceOrder(0) EXCEPT
      !.status = s,
      !.submitted_by = IF s = STATUS_DRAFT THEN "" ELSE "staff",
      !.submitted_at = s # STATUS_DRAFT,
      !.approved_by = IF s \in {STATUS_DRAFT, STATUS_SUBMITTED} THEN "" ELSE "manager",
      !.approved_at = s \notin {STATUS_DRAFT, STATUS_SUBMITTED} ]

\* the quantity received of an order in status s
EditReceived(s) ==
  IF s = STATUS_PARTIAL THEN 100 ELSE IF s = STATUS_FULFILLED THEN 300 ELSE 0

\* the audit rows of the order in status s
EditLog(s) ==
  IF s = STATUS_DRAFT THEN { a \in ApprovedLog(1) : a.verb = "create" }
  ELSE IF s = STATUS_SUBMITTED THEN { a \in ApprovedLog(1) : a.verb \in { "create", "submitted" } }
  ELSE IF s = STATUS_CANCELLED THEN Logged(ApprovedLog(1), "owner", "cancelled", 1, 0)
  ELSE IF s = STATUS_APPROVED THEN ApprovedLog(1)
  ELSE Logged(Logged(ApprovedLog(1), "owner", "received", 1, 1), "owner", "create", 0, 1)

\* one order in any status of its life
InitEdit ==
  \E s \in Statuses :
    /\ lpos = [ o \in 1..MaxOrders |-> IF o = 1 THEN EditOrder(s) ELSE NoLPO ]
    /\ lpoItems = [ i \in ItemIds |->
                      IF i = 1 THEN [ lpo |-> 1, qty |-> 300, unit_price |-> 100,
                                      line_total |-> LineTotal(300, 100), inv |-> 1, alive |-> TRUE ]
                      ELSE NoItem ]
    /\ nextItem = 2
    /\ grns = IF EditReceived(s) = 0 THEN << >>
              ELSE << [ lpo |-> 1, received_by |-> "owner",
                        items |-> << [ lpo_item |-> 1, qty_received |-> EditReceived(s) ] >> ] >>
    /\ stock = [ v \in Inv |-> EditReceived(s) ]
    /\ seqCounter = 2
    /\ itemLock = [ i \in ItemIds |-> 0 ]
    /\ invLock = [ v \in Inv |-> 0 ]
    /\ reqs = [ r \in Req |-> Idle ]
    /\ resp = NoResp
    /\ audit = EditLog(s)
    /\ suppliers = << AcmeRow >>
    /\ seqLock = [ y \in {Year} |-> 0 ]
    /\ outbox = {}

\* edits of the order, one at a time, and deletions by every user
NextEdit ==
  \/ \E r \in Req, u \in Updaters, o \in Orders, p \in UpdatePayloads :
       NoUpdateInFlight /\ UpdateRead(r, u, o, p)
  \/ \E r \in Req : UpdSave(r)
  \/ \E r \in Req : UpdDelete(r)
  \/ \E r \in Req : UpdCreate(r)
  \/ \E r \in Req : UpdTotals(r)
  \/ \E r \in Req, u \in Users, o \in Orders : DestroyRead(r, u, o)
  \/ \E r \in Req : DestroySave(r)

SpecEdit == InitEdit /\ [][NextEdit]_vars

\* C19: an update request on an order that is approved, partially received,
\* fulfilled or cancelled is rejected, and the header, the totals and the line
\* items of the order stay as they were; an update goes through only on a
\* draft or submitted order
C19_UpdateOnlyEditable ==
  [][ \A u \in Users, o \in Orders :
        ( Arrives("update", u, o) /\ ~is_editable(lpos[o]) )
        => ( Rejected("update", u, o) /\ lpos' = lpos /\ lpoItems' = lpoItems ) ]_vars

\* the manager's update of a fulfilled order was refused as not editable
C19_Witness ==
  /\ resp.op = "update" /\ resp.user = "manager" /\ resp.result = "fail" /\ resp.why = "not_editable"
  /\ lpos[resp.lpo].status = STATUS_FULFILLED
  /\ ~lpos[resp.lpo].deleted

\* C20: a soft-delete request on an order that is approved, partially
\* received, fulfilled or cancelled is rejected for every user, and the deleted
\* flag of such an order stays false
C20_DeleteOnlyEditable ==
  [][ \A o \in Orders :
        /\ \A u \in Users :
             ( Arrives("destroy", u, o) /\ ~is_editable(lpos[o]) ) => Rejected("destroy", u, o)
        /\ ( ~is_editable(lpos[o]) /\ ~lpos[o].deleted ) => ~lpos'[o].deleted ]_vars

\* ---------------------------------------------------------------- goods receipts as resources
\* a goods receipt row that was deleted; positions in grns are primary keys
NoGrn == [ lpo |-> 0, received_by |-> "", items |-> << >> ]

\* the goods receipts that exist
GrnIds == { k \in 1..Len(grns) : grns[k] # NoGrn }

\* receipts that workers are serving
ReceivesInFlight == { s \in Req : reqs[s].op = "receive" }

\* DELETE /grn/{id}/ : DestroyModelMixin.destroy of the ModelViewSet, open to
\* every authenticated user; instance.delete() removes the receipt and, by
\* on_delete=CASCADE, its GoodsReceiptItem rows and the AuditLog rows that
\* point to it; neither the stock nor the status of the order is touched
GrnDestroy(u, k) ==
  /\ k \in GrnIds
  /\ grns' = [ grns EXCEPT ![k] = NoGrn ]
  /\ audit' = { a \in audit : a.grn # k }
  /\ resp' = [ NoResp EXCEPT !.op = "grn_destroy", !.user = u, !.lpo = grns[k].lpo,
                             !.idx = k, !.result = "ok" ]
  /\ UNCHANGED << lpos, lpoItems, nextItem, stock, seqCounter, itemLock, invLock, reqs, suppliers, seqLock, outbox >>

\* the checks of PUT/PATCH /grn/{id}/ : GoodsReceiptSerializer.validate reads
\* attrs["lpo"] and the status of that order; ModelSerializer.update refuses
\* the nested items
GrnUpdateCheck(hasLpo, o, hasItems) ==
  IF ~hasLpo THEN "key_error"
  ELSE IF lpos[o].status \notin {STATUS_APPROVED, STATUS_PARTIAL} THEN "status"
  ELSE IF hasItems THEN "nested_write"
  ELSE "ok"

\* PUT/PATCH /grn/{id}/ : UpdateModelMixin.update; a PATCH that names an order
\* and no items passes and writes the order of the receipt
GrnUpdate(u, k, hasLpo, o, hasItems) ==
  /\ k \in GrnIds
  /\ Exists(o)
  /\ LET c == GrnUpdateCheck(hasLpo, o, hasItems)
     IN /\ grns' = IF c = "ok" THEN [ grns EXCEPT ![k].lpo = o ] ELSE grns
        /\ resp' = [ NoResp EXCEPT !.op = "grn_update", !.user = u, !.lpo = grns[k].lpo, !.idx = k,
                                   !.result = IF c = "ok" THEN "ok" ELSE "fail",
                                   !.why = IF c = "ok" THEN "" ELSE c ]
  /\ UNCHANGED << lpos, lpoItems, nextItem, stock, seqCounter, itemLock, invLock, reqs, audit, suppliers, seqLock, outbox >>

\* receipts against two approved orders, and the receipts edited and deleted
NextGrn ==
  \/ \E r \in Req, u \in Receivers, o \in Orders : \E g \in GrnSmall :
       /\ Len(grns) + Cardinality(ReceivesInFlight) < MaxGrns
       /\ Len(g) = 1
       /\ RecvValidate(r, u, o, g)
  \/ \E r \in Req : RecvLockItem(r)
  \/ \E r \in Req : RecvStock(r)
  \/ \E r \in Req : RecvRefresh(r)
  \/ \E r \in Req : RecvCommit(r)
  \/ \E u \in Receivers, k \in 1..MaxGrns : GrnDestroy(u, k)
  \/ \E u \in Receivers, k \in 1..MaxGrns, hasLpo \in BOOLEAN, o \in Orders, hasItems \in BOOLEAN :
       GrnUpdate(u, k, hasLpo, o, hasItems)

SpecGrn == InitCross /\ [][NextGrn]_vars

\* ---------------------------------------------------------------- claims on receipts and the audit log
\* C21: no step updates or deletes a goods receipt or one of its items, and
\* the total received of a line item never decreases
C21_ReceiptsImmutable ==
  [][ /\ Len(grns') >= Len(grns)
      /\ \A k \in 1..Len(grns) : grns'[k] = grns[k]
      /\ \A i \in ItemIds : Committed(i)' >= Committed(i) ]_vars

\* C23: the set of audit entries only grows; no step removes or changes an entry
C23_AuditAppendOnly ==
  [][ audit \subseteq audit' ]_vars

\* stock that the committed receipt items account for, for inventory row v
ReceivedInto(v) ==
  LET f(g) == StockDelta(g.items, v) IN SumSeq(f, grns)

\* C26: the stock of every inventory item is its initial quantity (0) plus the
\* quantities of the committed receipt items whose line item links to it
C26_StockMatchesReceipts ==
  \A v \in Inv : stock[v] = ReceivedInto(v)

\* the verb of the audit row each operation on an order writes
VerbOf(op) ==
  IF op = "create" THEN "create"
  ELSE IF op = "update" THEN "update"
  ELSE IF op = "submit" THEN "submitted"
  ELSE IF op = "approve" THEN "approved"
  ELSE IF op = "cancel" THEN "cancelled"
  ELSE IF op = "destroy" THEN "soft_delete"
  ELSE "received"

\* C22: right after a successful create, update, submit, approve, cancel,
\* soft-delete or receive the audit log holds an entry with the acting user,
\* the verb of the operation and the order (for a receive, the new goods receipt)
C22_SuccessIsAudited ==
  ( resp.result = "ok"
    /\ resp.op \in {"create", "update", "submit", "approve", "cancel", "destroy", "receive"} )
  => \E a \in audit :
       /\ a.actor = resp.user /\ a.verb = VerbOf(resp.op) /\ a.lpo = resp.lpo
       /\ resp.op = "receive" => a.grn = Len(grns)

\* C24: a submit, approve, cancel or receive that is refused leaves the audit
\* log as it was, and every audit entry of a receipt belongs to a committed
\* goods receipt of that order with its items
C24_FailureNotAudited ==
  /\ [][ ( resp'.result = "fail" /\ resp'.op \in {"submit", "approve", "cancel", "receive"} )
         => audit' = audit ]_vars
  /\ [](\A a \in audit :
          a.verb = "received" => ( /\ a.grn \in 1..Len(grns)
                                   /\ grns[a.grn].lpo = a.lpo
                                   /\ grns[a.grn].received_by = a.actor
                                   /\ grns[a.grn].items # << >> ))

\* a receipt failed at its second item, after the first was inserted, and the
\* order has no audit entry of a receipt
C24_Witness ==
  /\ resp.op = "receive" /\ resp.result = "fail" /\ resp.why = "exceeds" /\ resp.idx = 2
  /\ ~\E a \in audit : a.verb \in {"received"} /\ a.lpo = resp.lpo

\* ---------------------------------------------------------------- authorization
\* every operation on one order in any status, each by a user with and a
\* user without the capability for it; edits change the tax amount only
NextAuth ==
  \/ Lifecycle
  \/ \E r \in Req, u \in Updaters, o \in Orders, p \in UpdatePayloads :
       NoUpdateInFlight /\ ~p.hasItems /\ p.tax.mode = "amount" /\ UpdateRead(r, u, o, p)
  \/ \E r \in Req : UpdSave(r)
  \/ \E r \in Req : UpdTotals(r)
  \/ \E r \in Req, u \in Updaters, o \in Orders : DestroyRead(r, u, o)
  \/ \E r \in Req : DestroySave(r)

SpecAuth == InitEdit /\ [][NextAuth]_vars

\* user u fails the write policy on order o: neither owner nor manager, and
\* not the creator of a draft
LacksWrite(u, o) ==
  /\ u \notin {"owner", "manager"}
  /\ ~(lpos[o].created_by = u /\ lpos[o].status = STATUS_DRAFT)

\* C25: an approve by a user who is neither manager nor owner, a cancel by a
\* user who is not the owner, and an update, submit or soft-delete by a user
\* who fails the write policy are refused and leave the order, its line items
\* and the audit log as they were
C25_RefusedChangesNothing ==
  [][ \A u \in Users, o \in Orders :
        ( \/ Arrives("approve", u, o) /\ u \notin {"owner", "manager"}
          \/ Arrives("cancel", u, o) /\ u # "owner"
          \/ \E op \in {"update", "submit", "destroy"} : Arrives(op, u, o) /\ LacksWrite(u, o) )
        => ( /\ resp'.result = "fail" /\ reqs' = reqs
             /\ lpos' = lpos /\ lpoItems' = lpoItems /\ audit' = audit ) ]_vars

\* the soft-delete of a submitted order by the staff user who created it was
\* refused by the write policy
C25_Witness ==
  /\ resp.op = "destroy" /\ resp.user = "staff" /\ resp.result = "fail" /\ resp.why = "403"
  /\ lpos[resp.lpo].status = STATUS_SUBMITTED
  /\ ~lpos[resp.lpo].deleted

\* ---------------------------------------------------------------- suppliers
\* POST /suppliers/ bodies (values without surrounding blanks): a supplier with
\* phone and email, the same name and phone, the same name and email, the same
\* name with another phone, another supplier with a registration number, and
\* that registration number again
SupPayloads ==
  << [ NoPayload EXCEPT !.supplier_name = "acme", !.phone = "111", !.email = "a@x" ],
     [ NoPayload EXCEPT !.supplier_name = "ACME", !.phone = "111" ],
     [ NoPayload EXCEPT !.supplier_name = "acme", !.email = "A@X" ],
     [ NoPayload EXCEPT !.supplier_name = "acme", !.phone = "222" ],
     [ NoPayload EXCEPT !.supplier_name = "bolt", !.phone = "111", !.rc_number = "rc1" ],
     [ NoPayload EXCEPT !.supplier_name = "bolt", !.phone = "222", !.rc_number = "rc1" ] >>

\* PATCH /suppliers/{id}/ bodies: the fields sent and their values
SupPatches ==
  << [ fields |-> {"phone"}, p |-> [ NoPayload EXCEPT !.phone = "111" ] ],
     [ fields |-> {"name", "phone"}, p |-> [ NoPayload EXCEPT !.supplier_name = "acme", !.phone = "111" ] ],
     [ fields |-> {"email"}, p |-> [ NoPayload EXCEPT !.email = "a@x" ] ] >>

\* the soft duplicate guard without the check of name and phone
SupplierCheck_NoPhone(rows, a, self) ==
  LET others == { k \in 1..Len(rows) : k # self }
  IN IF a.supplier_name # "" /\ a.email # ""
        /\ \E k \in others : Lower(rows[k].name) = Lower(a.supplier_name)
                             /\ Lower(rows[k].email) = Lower(a.email)
     THEN "name_email"
     ELSE IF a.rc_number # "" /\ \E k \in others : Lower(rows[k].rc_number) = Lower(a.rc_number)
     THEN "rc_number"
     ELSE "ok"

\* SupplierSerializer.validate on the attributes a that were sent (a field not
\* sent reads as ""), excluding the row self that is being updated
SupplierCheck(rows, a, self) ==
  LET others == { k \in 1..Len(rows) : k # self }
  IN IF a.supplier_name # "" /\ a.phone # ""
        /\ \E k \in others : Lower(rows[k].name) = Lower(a.supplier_name) /\ rows[k].phone = a.phone
     THEN "name_phone"
     ELSE IF a.supplier_name # "" /\ a.email # ""
             /\ \E k \in others : Lower(rows[k].name) = Lower(a.supplier_name)
                                  /\ Lower(rows[k].email) = Lower(a.email)
     THEN "name_email"
     ELSE IF a.rc_number # "" /\ \E k \in others : Lower(rows[k].rc_number) = Lower(a.rc_number)
     THEN "rc_number"
     ELSE "ok"

\* supplier creations that have not inserted their row
SuppliersInFlight == { s \in Req : reqs[s].op = "supplier" }

\* POST /suppliers/ with body SupPayloads[j]: is_valid runs validate, which
\* reads the supplier table
SupValidate(r, u, j) ==
  /\ FirstFree(r)
  /\ Len(suppliers) + Cardinality(SuppliersInFlight) < MaxSup
  /\ seqCounter + Cardinality(SuppliersInFlight) + 1 <= MaxSeq
  /\ LET p == SupPayloads[j]
         q == [ Arrived("supplier", u, 0) EXCEPT !.idx = j, !.payload = p ]
         c == SupplierCheck(suppliers, p, 0)
     IN IF c # "ok" THEN Finish(r, q, "fail", c)
        ELSE Continue(r, [ q EXCEPT !.pc = "lock" ])
  /\ UNCHANGED << lpos, lpoItems, nextItem, grns, stock, seqCounter, itemLock, invLock, audit, suppliers, seqLock, outbox >>

\* next_supplier_code: the atomic block of _next_year_counter locks the
\* sequence row and reads the counter
SupAlloc(r) ==
  /\ reqs[r].op = "supplier" /\ reqs[r].pc = "lock"
  /\ CanLock(seqLock, Year, r)
  /\ seqLock' = [ seqLock EXCEPT ![Year] = r ]
  /\ UNCHANGED outbox
  /\ Continue(r, [ reqs[r] EXCEPT !.pc = "alloc", !.n = seqCounter + 1 ])
  /\ UNCHANGED << lpos, lpoItems, nextItem, grns, stock, seqCounter, itemLock, invLock, audit, suppliers >>

\* the row of supplier k with the fields of the body written over it
Patched(row, fields, p) ==
  [ row EXCEPT !.name = IF "name" \in fields THEN p.supplier_name ELSE row.name,
               !.phone = IF "phone" \in fields THEN p.phone ELSE row.phone,
               !.email = IF "email" \in fields THEN p.email ELSE row.email ]

\* PATCH /suppliers/{k}/ with body SupPatches[j]: get_object and validate on
\* the fields that were sent
SupUpdRead(r, u, k, j) ==
  /\ FirstFree(r)
  /\ k \in 1..Len(suppliers)
  /\ LET b == SupPatches[j]
         q == [ Arrived("supplier_update", u, 0) EXCEPT !.idx = j, !.n = k ]
         c == SupplierCheck(suppliers, b.p, k)
     IN IF c # "ok" THEN Finish(r, q, "fail", c)
        ELSE Continue(r, [ q EXCEPT !.pc = "save", !.sup = Patched(suppliers[k], b.fields, b.p) ])
  /\ UNCHANGED << lpos, lpoItems, nextItem, grns, stock, seqCounter, itemLock, invLock, audit, suppliers, seqLock, outbox >>

\* ModelSerializer.update: instance.save() writes every column of the row
SupUpdSave(r) ==
  /\ reqs[r].op = "supplier_update" /\ reqs[r].pc = "save"
  /\ suppliers' = [ suppliers EXCEPT ![reqs[r].n] = reqs[r].sup ]
  /\ Finish(r, reqs[r], "ok", "")
  /\ UNCHANGED << lpos, lpoItems, nextItem, grns, stock, seqCounter, itemLock, invLock, audit, seqLock, outbox >>

\* suppliers created and edited through /suppliers/, and orders created with
\* the name of a supplier
NextSup ==
  \/ \E r \in Req, u \in Creators, j \in 1..Len(SupPayloads) : SupValidate(r, u, j)
  \/ \E r \in Req : SupAlloc(r)
  \/ \E r \in Req : SupCommit(r)
  \/ \E r \in Req : SupInsert(r)
  \/ \E r \in Req, u \in Creators, k \in 1..MaxSup, j \in 1..Len(SupPatches) : SupUpdRead(r, u, k, j)
  \/ \E r \in Req : SupUpdSave(r)
  \/ \E u \in Creators, o \in Orders, p \in SeqPayloads :
       /\ p.supplier_name = "acme"
       /\ Len(suppliers) + Cardinality(SuppliersInFlight) < MaxSup
       /\ seqCounter + Cardinality(SuppliersInFlight) + 2 <= MaxSeq
       /\ CreateLPO(u, o, p)

SpecSup == InitSeq /\ [][NextSup]_vars

\* ---------------------------------------------------------------- claims on suppliers
\* two supplier rows share name and phone, name and email, or a registration number
SharesIdentity(a, b) ==
  \/ a.name = b.name /\ a.phone # "" /\ a.phone = b.phone
  \/ a.name = b.name /\ a.email # "" /\ Lower(a.email) = Lower(b.email)
  \/ a.rc_number # "" /\ Lower(a.rc_number) = Lower(b.rc_number)

\* C27: in every state no two suppliers share the same name and phone, the
\* same name and email, or the same non-empty registration number
C27_NoDuplicateSuppliers ==
  \A j, k \in 1..Len(suppliers) : j # k => ~SharesIdentity(suppliers[j], suppliers[k])

\* an existing supplier has the name of body p and its phone or its email, or
\* its registration number
Duplicates(p) ==
  \E k \in 1..Len(suppliers) :
    \/ /\ Lower(suppliers[k].name) = Lower(p.supplier_name)
       /\ \/ p.phone # "" /\ suppliers[k].phone = p.phone
          \/ p.email # "" /\ Lower(suppliers[k].email) = Lower(p.email)
    \/ p.rc_number # "" /\ Lower(suppliers[k].rc_number) = Lower(p.rc_number)

\* C28: a supplier creation is refused, and changes nothing, exactly when an
\* existing supplier has the same name and the same phone, or the same name and
\* the same email, or the same registration number; with the same name and
\* another phone it goes on, and the row it inserts carries a code that no
\* other supplier has
C28_SupplierCreateGuard ==
  [][ /\ ( resp'.op = "supplier" /\ resp'.result = "fail" )
         => ( Duplicates(SupPayloads[resp'.idx]) /\ suppliers' = suppliers /\ seqCounter' = seqCounter )
      /\ \A r \in Req :
           ( reqs[r].pc = "idle" /\ reqs'[r].op = "supplier" ) => ~Duplicates(reqs'[r].payload)
      /\ Len(suppliers') = Len(suppliers) + 1
           => \A k \in 1..Len(suppliers) :
                suppliers[k].supplier_code # suppliers'[Len(suppliers')].supplier_code ]_vars

\* a supplier with the name of an existing one and another phone was created;
\* the two have different codes
C28_Witness ==
  /\ resp.op = "supplier" /\ resp.result = "ok"
  /\ \E j, k \in 1..Len(suppliers) :
       /\ j # k
       /\ suppliers[j].name = suppliers[k].name
       /\ suppliers[j].phone = "111" /\ suppliers[k].phone = "222"
       /\ suppliers[j].supplier_code # suppliers[k].supplier_code

\* ---------------------------------------------------------------- the mail of an approval
\* the supplier of the order, with or without an e-mail address
MailSupplier(e) == [ AcmeRow EXCEPT !.email = e ]

\* one order in any status of its life, its supplier with or without an address
InitMail ==
  \E s \in Statuses, e \in { "", "a@x" } :
    /\ lpos = [ o \in 1..MaxOrders |-> IF o = 1 THEN EditOrder(s) ELSE NoLPO ]
    /\ lpoItems = [ i \in ItemIds |->
                      IF i = 1 THEN [ lpo |-> 1, qty |-> 300, unit_price |-> 100,
                                      line_total |-> LineTotal(300, 100), inv |-> 1, alive |-> TRUE ]
                      ELSE NoItem ]
    /\ nextItem = 2
    /\ grns = IF EditReceived(s) = 0 THEN << >>
              ELSE << [ lpo |-> 1, received_by |-> "owner",
                        items |-> << [ lpo_item |-> 1, qty_received |-> EditReceived(s) ] >> ] >>
    /\ stock = [ v \in Inv |-> EditReceived(s) ]
    /\ seqCounter = 2
    /\ itemLock = [ i \in ItemIds |-> 0 ]
    /\ invLock = [ v \in Inv |-> 0 ]
    /\ reqs = [ r \in Req |-> Idle ]
    /\ resp = NoResp
    /\ audit = EditLog(s)
    /\ suppliers = << MailSupplier(e) >>
    /\ seqLock = [ y \in {Year} |-> 0 ]
    /\ outbox = {}

\* submissions, approvals and cancellations of the order
NextMail == Lifecycle

SpecMail == InitMail /\ [][NextMail]_vars

\* C29: a failure of the PDF renderer or of the mail server during an approval
\* is not fatal: every approval that reaches its save ends with the order
\* approved, approver and time recorded, the "approved" audit row written and
\* the request answered with success.
C29_ApprovalSurvivesMail ==
  [][ \A r \in Req :
        ( reqs[r].op = "approve" /\ reqs[r].pc = "save" /\ reqs'[r] = Idle )
        => /\ resp'.result = "ok"
           /\ lpos'[reqs[r].lpo].status = STATUS_APPROVED
           /\ lpos'[reqs[r].lpo].approved_by = reqs[r].user
           /\ lpos'[reqs[r].lpo].approved_at
           /\ [ actor |-> reqs[r].user, verb |-> "approved", lpo |-> reqs[r].lpo, grn |-> 0 ] \in audit' ]_vars

\* an approval answered with success whose mail carries the stub document of
\* a failed rendering
C29_Witness ==
  /\ resp.op = "approve" /\ resp.result = "ok"
  /\ lpos[resp.lpo].status = STATUS_APPROVED
  /\ \E m \in outbox : m.lpo = resp.lpo /\ m.pdf = "stub"

\* an approval answered with success whose mail the server did not take
C29_MailLost ==
  /\ resp.op = "approve" /\ resp.result = "ok"
  /\ lpos[resp.lpo].status = STATUS_APPROVED
  /\ suppliers[lpos[resp.lpo].supplier].email # ""
  /\ Emailed(audit, resp.lpo)
  /\ outbox = {}

\* ---------------------------------------------------------------- who submitted, who approved
\* C30: in every state an order that is submitted, approved, partially
\* received or fulfilled has its submitter and submission time, an order that
\* is approved, partially received or fulfilled has its approver and approval
\* time, and a draft has none of the four.
C30_ActorsRecorded ==
  \A o \in Orders :
    Exists(o) =>
      /\ lpos[o].status \in { STATUS_SUBMITTED, STATUS_APPROVED, STATUS_PARTIAL, STATUS_FULFILLED }
           => ( lpos[o].submitted_by # "" /\ lpos[o].submitted_at )
      /\ lpos[o].status \in { STATUS_APPROVED, STATUS_PARTIAL, STATUS_FULFILLED }
           => ( lpos[o].approved_by # "" /\ lpos[o].approved_at )
      /\ lpos[o].status = STATUS_DRAFT
           => ( lpos[o].submitted_by = "" /\ ~lpos[o].submitted_at
                /\ lpos[o].approved_by = "" /\ ~lpos[o].approved_at )

\* ---------------------------------------------------------------- tax from a rate
\* the subtotal of the line items order o has after the step
SubtotalAfter(o) ==
  LET S == { i \in ItemIds : lpoItems'[i].alive /\ lpoItems'[i].lpo = o }
      lt(i) == lpoItems'[i].line_total
  IN SumSet(lt, S)

\* C31: after every successful create or update whose tax is derived from a
\* percentage rate, the tax_amount of the order is that rate of the subtotal
\* of the line items the order then has, rounded to two decimal places.
C31_TaxFromRate ==
  [][ /\ \A u \in Creators, o \in Orders, p \in CreatePayloads :
           ( p.tax.mode = "rate" /\ CreateLPO(u, o, p) )
           => lpos'[o].tax_amount = RoundHalfEven(SubtotalAfter(o) * p.tax.v, 100)
      /\ \A r \in Req :
           ( /\ reqs[r].op = "update" /\ reqs[r].pc = "totals" /\ reqs'[r] = Idle
             /\ resp'.result = "ok" /\ reqs[r].payload.tax.mode = "rate" )
           => lpos'[reqs[r].lpo].tax_amount
                = RoundHalfEven(SubtotalAfter(reqs[r].lpo) * reqs[r].payload.tax.v, 100) ]_vars

\* ---------------------------------------------------------------- replacement of the line items
\* the line items order o has after the step
ItemsAfter(o) == { i \in ItemIds : lpoItems'[i].alive /\ lpoItems'[i].lpo = o }

\* the rows S, in the order of their primary keys, are the items of the list L
IsList(S, L) ==
  /\ Cardinality(S) = Len(L)
  /\ \A i \in S :
       LET k == Cardinality({ j \in S : j <= i })
       IN /\ lpoItems'[i].qty = L[k].qty
          /\ lpoItems'[i].unit_price = L[k].unit_price
          /\ lpoItems'[i].inv = L[k].inv

\* edits of one order by two requests at a time
MergePayloads == { p \in UpdatePayloads : p.tax.mode # "amount" /\ p.disc.mode = "absent" }

NextMerge ==
  \/ \E r \in Req, u \in Updaters, o \in Orders, p \in MergePayloads : UpdateRead(r, u, o, p)
  \/ \E r \in Req : UpdSave(r)
  \/ \E r \in Req : UpdDelete(r)
  \/ \E r \in Req : UpdCreate(r)
  \/ \E r \in Req : UpdTotals(r)

SpecMerge == InitEdit /\ [][NextMerge]_vars

\* C32: a successful update that carries an items list L leaves the order
\* with exactly the items of L and none of the line items it had before; a
\* successful update without an items list leaves the line items as they were
\* when the request arrived.
C32_WholesaleReplacement ==
  [][ \A r \in Req :
        ( /\ reqs[r].op = "update" /\ reqs[r].pc = "totals" /\ reqs'[r] = Idle
          /\ resp'.result = "ok" )
        => IF reqs[r].hasItems
           THEN /\ IsList(ItemsAfter(reqs[r].lpo), reqs[r].items)
                /\ ItemsAfter(reqs[r].lpo) \cap reqs[r].pitems = {}
           ELSE ItemsAfter(reqs[r].lpo) = reqs[r].pitems ]_vars

\* ---------------------------------------------------------------- the status after concurrent receipts
\* C33: when the last receipt of an order has committed, no receipt is in
\* flight and every line item of the order is fully received, the order is
\* fulfilled, also when the last receipts ran at the same time on different
\* line items.
C33_FulfilledWhenAllReceived ==
  ( /\ resp.op = "receive" /\ resp.result = "ok"
    /\ ReceivesInFlight = {}
    /\ ItemsOf(resp.lpo) # {}
    /\ \A i \in ItemsOf(resp.lpo) : Committed(i) >= lpoItems[i].qty )
  => lpos[resp.lpo].status = STATUS_FULFILLED

\* ---------------------------------------------------------------- an edit against an approval
\* the header amounts of an order row
Totals(row) == << row.subtotal, row.tax_amount, row.discount_amount, row.grand_total >>

\* C34: however an update and an approval of one submitted order interleave,
\* the order never goes back from approved to submitted, the approval leaves
\* the order with the totals its guard looked at, and the line items and
\* totals of an approved order do not change afterwards.
C34_EditNeverCrossesApproval ==
  [][ /\ \A o \in Orders :
           lpos[o].status = STATUS_APPROVED => lpos'[o].status # STATUS_SUBMITTED
      /\ \A r \in Req :
           ( reqs[r].op = "approve" /\ reqs[r].pc = "save" /\ reqs'[r] = Idle /\ resp'.result = "ok" )
           => Totals(lpos'[reqs[r].lpo]) = Totals(reqs[r].inst)
      /\ \A o \in Orders :
           ( lpos[o].status = STATUS_APPROVED /\ lpos'[o].status = STATUS_APPROVED )
           => ( Totals(lpos'[o]) = Totals(lpos[o])
                /\ \A i \in ItemIds : ( lpoItems[i].lpo = o \/ lpoItems'[i].lpo = o )
                                       => lpoItems'[i] = lpoItems[i] ) ]_vars

\* ---------------------------------------------------------------- receipts that wait for each other
\* the request that holds the row lock request r is waiting for, 0 for none:
\* select_for_update().get(pk) waits for the LPOItem row, the stock UPDATE for
\* the InventoryEntry row
WaitsOn(r) ==
  IF reqs[r].op = "receive" /\ reqs[r].pc = "lock"
  THEN LET i == reqs[r].gitems[reqs[r].idx].lpo_item
       IN IF itemLock[i] \in {0, r} THEN 0 ELSE itemLock[i]
  ELSE IF reqs[r].op = "receive" /\ reqs[r].pc = "stock"
  THEN LET v == lpoItems[reqs[r].gitems[reqs[r].idx].lpo_item].inv
       IN IF invLock[v] \in {0, r} THEN 0 ELSE invLock[v]
  ELSE 0

\* request s is reached from r along at most n waits
RECURSIVE Reaches(_, _, _)
Reaches(r, s, n) ==
  /\ n > 0
  /\ WaitsOn(r) # 0
  /\ ( WaitsOn(r) = s \/ Reaches(WaitsOn(r), s, n - 1) )

\* a database that never looks for a cycle of waiting transactions
InCycle_Never(r) == FALSE

\* the transaction of r is in a cycle of transactions waiting for each other
InCycle(r) == Reaches(r, r, MaxReq)

\* the database ends a cycle of waiting transactions: the statement of one of
\* them raises, the exception leaves transaction.atomic(), the receipt is
\* rolled back with its locks and the request is answered with an error
RecvDeadlock(r) ==
  /\ reqs[r].op = "receive" /\ reqs[r].pc \in {"lock", "stock"}
  /\ InCycle(r)
  /\ Finish(r, reqs[r], "fail", "deadlock")
  /\ grns' = Rollback(grns, reqs[r])
  /\ itemLock' = Released(itemLock, r)
  /\ invLock' = Released(invLock, r)
  /\ UNCHANGED << lpos, lpoItems, nextItem, stock, seqCounter >>
  /\ UNCHANGED << audit, suppliers, seqLock, outbox >>

\* receipts of two line items, in the one order and in the other
LockPayloads ==
  { g \in GrnSmall : Len(g) = 2 /\ g[1].lpo_item # g[2].lpo_item }

\* an approved order with two lines of 3.00, the first with an inventory item
InitLock ==
  /\ lpos = [ o \in 1..MaxOrders |->
                IF o = 1 THEN [ RaceOrder(0) EXCEPT !.subtotal = 600, !.grand_total = 600 ]
                ELSE NoLPO ]
  /\ lpoItems = [ i \in ItemIds |->
                    IF i = 1 THEN [ lpo |-> 1, qty |-> 300, unit_price |-> 100,
                                    line_total |-> LineTotal(300, 100), inv |-> 1, alive |-> TRUE ]
                    ELSE IF i = 2 THEN [ lpo |-> 1, qty |-> 300, unit_price |-> 100,
                                         line_total |-> LineTotal(300, 100), inv |-> NoInv, alive |-> TRUE ]
                    ELSE NoItem ]
  /\ nextItem = 3
  /\ grns = << >>
  /\ stock = [ v \in Inv |-> 0 ]
  /\ seqCounter = 2
  /\ itemLock = [ i \in ItemIds |-> 0 ]
  /\ invLock = [ v \in Inv |-> 0 ]
  /\ reqs = [ r \in Req |-> Idle ]
  /\ resp = NoResp
  /\ audit = ApprovedLog(1)
  /\ suppliers = << AcmeRow >>
  /\ seqLock = [ y \in {Year} |-> 0 ]
  /\ outbox = {}

NextLock ==
  \/ \E r \in Req, u \in Receivers, o \in Orders : \E g \in LockPayloads :
       /\ Len(grns) + Cardinality(ReceivesInFlight) < MaxGrns
       /\ RecvValidate(r, u, o, g)
  \/ \E r \in Req : RecvLockItem(r)
  \/ \E r \in Req : RecvStock(r)
  \/ \E r \in Req : RecvRefresh(r)
  \/ \E r \in Req : RecvCommit(r)
  \/ \E r \in Req : RecvDeadlock(r)

\* every transaction that can take a step takes it: a row lock that is free
\* again and again is granted to the transaction that waits for it
FairLock ==
  \A r \in Req :
    /\ SF_vars(RecvLockItem(r))
    /\ SF_vars(RecvStock(r))
    /\ WF_vars(RecvRefresh(r))
    /\ WF_vars(RecvCommit(r))
    /\ WF_vars(RecvDeadlock(r))

SpecLock == InitLock /\ [][NextLock]_vars /\ FairLock

\* worker r serves no request and holds no row lock
Done(r) ==
  /\ reqs[r] = Idle
  /\ \A i \in ItemIds : itemLock[i] # r
  /\ \A v \in Inv : invLock[v] # r

C36_ApprovedHasItemsAndTotal ==
  \A o \in Orders :
    ( Exists(o) /\ lpos[o].status \in { STATUS_APPROVED, STATUS_PARTIAL, STATUS_FULFILLED } )
    => ( ItemsOf(o) # {} /\ lpos[o].grand_total > 0 )

\* ---------------------------------------------------------------- what the transitions leave alone
\* the step is a step of a request of one of the operations ops
StepOf(ops) ==
  \/ resp'.op \in ops
  \/ \E r \in Req : reqs'[r] # reqs[r] /\ ( reqs[r].op \in ops \/ reqs'[r].op \in ops )

\* the amounts and the number of every order are as before the step
SameAmounts ==
  \A o \in Orders : /\ Totals(lpos'[o]) = Totals(lpos[o])
                    /\ lpos'[o].lpo_number = lpos[o].lpo_number

\* C37: submit, approve, cancel and soft-delete leave the line items, the
\* subtotal, tax, discount and grand total, the order number and the received
\* quantities of every order as they were; soft-delete leaves the status too
\* and removes no row.
C37_TransitionsFrame ==
  [][ /\ StepOf({ "submit", "approve", "cancel", "destroy" })
         => ( lpoItems' = lpoItems /\ SameAmounts /\ grns' = grns )
      /\ StepOf({ "destroy" })
         => ( /\ \A o \in Orders : lpos'[o].status = lpos[o].status
              /\ \A o \in Orders : Exists(o) => lpos'[o].status # NoStatus
              /\ audit \subseteq audit' ) ]_vars

\* a partially received order was soft-deleted: its line, its receipt and its
\* status are still there
C37_Witness ==
  /\ resp.op = "destroy" /\ resp.result = "ok"
  /\ lpos[resp.lpo].deleted /\ lpos[resp.lpo].status = STATUS_PARTIAL
  /\ ItemsOf(resp.lpo) # {} /\ grns # << >>

\* ---------------------------------------------------------------- one line item twice in a receipt
\* C38: a receipt that lists a line item more than once is checked against
\* the sum: it succeeds only if, for every line item, its quantities together
\* are at most what remained of the line before the receipt.
C38_CumulativeCheck ==
  [][ \A r \in Req :
        ( reqs[r].op = "receive" /\ reqs[r].pc = "commit" /\ reqs'[r] = Idle /\ resp'.result = "ok" )
        => \A i \in ItemIds :
             lpoItems[i].alive
             => QtyIn(reqs[r].gitems, i) <= lpoItems[i].qty - Committed(i) ]_vars

\* a receipt with the same line item twice went through
C38_Witness ==
  /\ resp.op = "receive" /\ resp.result = "ok"
  /\ grns # << >>
  /\ LET g == grns[Len(grns)]
     IN Len(g.items) = 2 /\ g.items[1].lpo_item = g.items[2].lpo_item

\* ---------------------------------------------------------------- capability flags
\* user.has_perm("procurement.approve_lpo"): a superuser has every permission,
\* the Manager group carries this one, staff do not
has_perm_approve_lpo(u) == is_owner(u) \/ in_groups_Manager(u)

\* LPOSerializer.get_can_submit
get_can_submit(u, row) ==
  row.status = STATUS_DRAFT /\ row.grand_total > 0 /\ ( u = row.created_by \/ is_owner(u) )

\* LPOSerializer.get_can_approve
get_can_approve(u, row) ==
  row.status = STATUS_SUBMITTED /\ ( is_owner(u) \/ is_manager_or_owner(u) )

\* LPOSerializer.get_can_cancel
get_can_cancel(u, row) ==
  IF row.status \in { STATUS_CANCELLED, STATUS_FULFILLED } THEN FALSE
  ELSE IF is_owner(u) THEN TRUE
  ELSE IF has_perm_approve_lpo(u) THEN FALSE
  ELSE row.status = STATUS_DRAFT /\ u = row.created_by

\* submit, approve and cancel requests of every user on one order in any status
NextFlags ==
  \/ \E r \in Req, u \in Users, o \in Orders : SubmitRead(r, u, o)
  \/ \E r \in Req : SubmitSave(r)
  \/ \E r \in Req, u \in Users, o \in Orders : ApproveRead(r, u, o)
  \/ \E r \in Req : ApproveSave(r)
  \/ \E r \in Req, u \in Users, o \in Orders : CancelRead(r, u, o)
  \/ \E r \in Req : CancelSave(r)

SpecFlags == InitEdit /\ [][NextFlags]_vars

\* C39: the flags sent with an order agree with the guards: a cancel, approve
\* or submit request of a user on an order the user sees is not refused when
\* the flag of that operation is true for the user as the request arrives.
C39_FlagsAgreeWithGuards ==
  [][ \A u \in Users, o \in Orders :
        Visible(u, o) =>
          /\ ( get_can_cancel(u, lpos[o]) /\ Arrives("cancel", u, o) ) => Accepted("cancel", u, o)
          /\ ( get_can_approve(u, lpos[o]) /\ Arrives("approve", u, o) ) => Accepted("approve", u, o)
          /\ ( get_can_submit(u, lpos[o]) /\ Arrives("submit", u, o) ) => Accepted("submit", u, o) ]_vars

\* ---------------------------------------------------------------- the mail of an approval, statement by statement
\* lpo.save(update_fields=["status", "approved_at", "approved_by"]) up to the
\* check of the post_save handler for an earlier "emailed" audit row
ApproveSaveRow(r) ==
  /\ reqs[r].op = "approve" /\ reqs[r].pc = "save"
  /\ LET q == reqs[r]
         o == q.lpo
         fires == q.inst.status = STATUS_APPROVED /\ ~Emailed(audit, o)
     IN /\ lpos' = [ lpos EXCEPT ![o].status = q.inst.status,
                                 ![o].approved_by = q.inst.approved_by,
                                 ![o].approved_at = q.inst.approved_at ]
        /\ IF fires
           THEN /\ Continue(r, [ q EXCEPT !.pc = "mail" ])
                /\ audit' = audit
           ELSE /\ Finish(r, q, "ok", "")
                /\ audit' = Logged(audit, q.user, "approved", o, 0)
  /\ UNCHANGED << lpoItems, nextItem, grns, stock, seqCounter, itemLock, invLock >>
  /\ UNCHANGED << suppliers, seqLock, outbox >>

\* the rest of the handler and of the view: the PDF is rendered and mailed,
\* the "emailed" audit row is written, then the "approved" audit row
ApproveNotify(r) ==
  /\ reqs[r].op = "approve" /\ reqs[r].pc = "mail"
  /\ \E rendered \in BOOLEAN, delivered \in BOOLEAN :
       LET q == reqs[r]
           o == q.lpo
           pdf == render_lpo_pdf_bytes(rendered)
           to == IF lpos[o].supplier = 0 THEN "" ELSE suppliers[lpos[o].supplier].email
       IN IF pdf = "raise"
          THEN /\ audit' = audit
               /\ outbox' = outbox
               /\ Finish(r, q, "fail", "error")
          ELSE /\ outbox' = send_lpo_pdf_to_supplier(outbox, o, to, pdf, delivered)
               /\ audit' = Logged(Logged(audit, "", "emailed", o, 0), q.user, "approved", o, 0)
               /\ Finish(r, q, "ok", "")
  /\ UNCHANGED << lpos, lpoItems, nextItem, grns, stock, seqCounter, itemLock, invLock >>
  /\ UNCHANGED << suppliers, seqLock >>

\* submissions and approvals of the order, the handler statement by statement
NextNotify ==
  \/ \E r \in Req, u \in Submitters, o \in Orders : SubmitRead(r, u, o)
  \/ \E r \in Req : SubmitSave(r)
  \/ \E r \in Req, u \in Users, o \in Orders : ApproveRead(r, u, o)
  \/ \E r \in Req : ApproveSaveRow(r)
  \/ \E r \in Req : ApproveNotify(r)

SpecNotify == InitMail /\ [][NextNotify]_vars

\* C40: the supplier of an order is notified at most once: in every state at
\* most one mail of the order has been handed to the mail server.
C40_MailedOnce ==
  \A o \in Orders : Cardinality({ m \in outbox : m.lpo = o }) <= 1
====
